---------------------------- MODULE Spec2Model ----------------------------
(***************************************************************************)
(* A model of the Gherkin authoring subsystem of stable-test:              *)
(*   - the structural validator validateModel          (SpecValidate)      *)
(*   - the path-addressed file tree and its editor     (SpecTree)          *)
(*   - ensureFolderChain as a pure function            (SpecChain)         *)
(*   - the low-code scenario builder                   (SpecBuilder)       *)
(*   - the step catalog normalizer flattenSteps        (SpecFlatten)       *)
(*   - the loading of the step catalog                 (SpecCatalog)       *)
(*   - the pure functions fuzzyScore, buildStepSnippet, stringifyTree,     *)
(*     normalizeFolderPath and sortTreeItems, each under a specification   *)
(*     that applies it to one input                                        *)
(* Strings are sequences of one-character strings, so that trimming,       *)
(* splitting, case folding and the regular expressions of the source are   *)
(* computed character by character.                                        *)
(***************************************************************************)
EXTENDS Integers, Sequences, FiniteSets, TLC

VARIABLES
    \* validateModel applied to one document
    vLines, vMarkers, vDone,
    \* the Monaco page (AppDetail): the tree, the selection, the stored texts,
    \* the text model of the mounted editor and the markers attached to it
    items, selectedFilePath, selectedFolderPath, fileContents, edText, edMarkers,
    \* the last handler that ran, and whether it returned early
    lastOp,
    \* ensureFolderChain applied to one list and one path
    cItems, cPath, cOut, cDone,
    \* the scenario builder page (AppDetail): the file nodes of the tree, the
    \* selected file and scenario, the message under the form
    fileNodes, selectedFile, selectedScenarioId, validationMessage,
    \* the step catalog: the response body of the request, the steps kept
    fResponse, fSteps, fDone,
    \* a pure function applied to one input: the input, the value returned
    fnIn, fnOut, fnDone,
    \* the step catalog of the Monaco page: the app of the route, the state
    \* `steps`, stepsRef.current, the catalog requests not yet handled
    kAppId, kSteps, kStepsRef, kRequests,
    \* the language service of the Monaco page: the module variables
    \* languageRegistered and completionProviderDisposable, how often the
    \* language was registered, the completion providers Monaco holds, the
    \* mounted page component and its mounted editor (0 for none, else the
    \* number of the mount), the key of the editor, initializedRef.current
    languageRegistered, registrations, providers, completionProviderDisposable,
    page, editor, editorKey, initializedRef,
    \* AuthProvider: the state accessToken (accessRef.current is assigned with
    \* it), refreshRef.current, rememberRef.current, tokenStore's memory and
    \* localStorage, whether the refresh timer is pending, user, loading, the
    \* interceptor's isRefreshing and queue, the requests of the application,
    \* the calls of /auth/refresh, /auth/logout, /auth/login and /me in
    \* flight, the number of tokens the server has issued, whether the boot
    \* effect has run, whether logout() has completed with no login() since
    accessToken, refreshRef, rememberRef, inMem, stored, timer, user, loading,
    isRefreshing, queue, calls, refreshes, logouts, logins, profiles, issued,
    booted, loggedOut

vvars == <<vLines, vMarkers, vDone>>
tvars == <<items, selectedFilePath, selectedFolderPath, fileContents, edText, edMarkers, lastOp>>
cvars == <<cItems, cPath, cOut, cDone>>
bvars == <<fileNodes, selectedFile, selectedScenarioId, validationMessage>>
fvars == <<fResponse, fSteps, fDone>>
pvars == <<fnIn, fnOut, fnDone>>
kvars == <<kAppId, kSteps, kStepsRef, kRequests>>
rvars == <<languageRegistered, registrations, providers, completionProviderDisposable,
           page, editor, editorKey, initializedRef>>
avars == <<accessToken, refreshRef, rememberRef, inMem, stored, timer, user, loading,
           isRefreshing, queue, calls, refreshes, logouts, logins, profiles, issued,
           booted, loggedOut>>
vars == <<vvars, tvars, cvars, bvars, fvars, pvars, kvars, rvars, avars>>

\* the parts of the state a specification does not use stay at these values
IdleValidate == vLines = <<>> /\ vMarkers = <<>> /\ vDone = FALSE
IdleTree ==
    /\ items = <<>> /\ selectedFilePath = <<>> /\ selectedFolderPath = <<>>
    /\ fileContents = <<>> /\ edText = <<>> /\ edMarkers = <<>> /\ lastOp = <<>>
IdleChain == cItems = <<>> /\ cPath = <<>> /\ cOut = <<>> /\ cDone = FALSE
IdleBuilder ==
    /\ fileNodes = <<>> /\ selectedFile = 0
    /\ selectedScenarioId = 0 /\ validationMessage = ""
IdleFlatten == fResponse = <<>> /\ fSteps = <<>> /\ fDone = FALSE
IdlePure == fnIn = <<>> /\ fnOut = <<>> /\ fnDone = FALSE
IdleCatalog == kAppId = <<>> /\ kSteps = <<>> /\ kStepsRef = <<>> /\ kRequests = <<>>
IdleRegister ==
    /\ languageRegistered = FALSE /\ registrations = 0 /\ providers = {}
    /\ completionProviderDisposable = 0
    /\ page = 0 /\ editor = 0 /\ editorKey = 0 /\ initializedRef = FALSE
IdleAuth ==
    /\ accessToken = 0 /\ refreshRef = 0 /\ rememberRef = FALSE
    /\ inMem = <<>> /\ stored = <<>> /\ timer = FALSE /\ user = 0 /\ loading = FALSE
    /\ isRefreshing = FALSE /\ queue = <<>> /\ calls = <<>> /\ refreshes = <<>>
    /\ logouts = <<>> /\ logins = <<>> /\ profiles = <<>> /\ issued = 0
    /\ booted = FALSE /\ loggedOut = FALSE

-----------------------------------------------------------------------------
(* Characters and strings                                                  *)

UpperChars == <<"A","B","C","D","E","F","G","H","I","J","K","L","M",
                "N","O","P","Q","R","S","T","U","V","W","X","Y","Z">>
LowerChars == <<"a","b","c","d","e","f","g","h","i","j","k","l","m",
                "n","o","p","q","r","s","t","u","v","w","x","y","z">>
DigitChars == <<"0","1","2","3","4","5","6","7","8","9">>

Range(f) == {f[i] : i \in DOMAIN f}

\* String.prototype.toLowerCase, one character
LowerOf == [c \in Range(UpperChars) |-> LowerChars[CHOOSE i \in 1..26 : UpperChars[i] = c]]
ToLowerChar(c) == IF c \in DOMAIN LowerOf THEN LowerOf[c] ELSE c

\* String.prototype.toLowerCase
ToLowerCase(s) == [i \in 1..Len(s) |-> ToLowerChar(s[i])]

\* the class \s of a regular expression
IsSpace(c) == c \in {" ", "\t", "\n", "\r"}

\* the classes [A-Za-z0-9] and \w of a regular expression
AlnumChars == Range(UpperChars) \cup Range(LowerChars) \cup Range(DigitChars)
WordChars == AlnumChars \cup {"_"}
IsWordChar(c) == c \in WordChars

\* String.prototype.trim
Trim(s) ==
    LET solid == {i \in 1..Len(s) : ~IsSpace(s[i])}
    IN  IF solid = {} THEN <<>>
        ELSE LET first == CHOOSE i \in solid : \A j \in solid : i <= j
                 last  == CHOOSE i \in solid : \A j \in solid : j <= i
             IN  SubSeq(s, first, last)

\* removal of a leading \s*
TrimStart(s) ==
    LET solid == {i \in 1..Len(s) : ~IsSpace(s[i])}
    IN  IF solid = {} THEN <<>>
        ELSE SubSeq(s, CHOOSE i \in solid : \A j \in solid : i <= j, Len(s))

\* s begins with word, letter case ignored (the i flag)
StartsWithIgnoreCase(s, word) ==
    /\ Len(s) >= Len(word)
    /\ \A i \in 1..Len(word) : ToLowerChar(s[i]) = ToLowerChar(word[i])

\* the concatenation of a sequence of strings
RECURSIVE Concat(_)
Concat(pieces) == IF pieces = <<>> THEN <<>> ELSE Head(pieces) \o Concat(Tail(pieces))

-----------------------------------------------------------------------------
(* validateModel                                                           *)

S_Feature  == <<"F","e","a","t","u","r","e">>
S_Scenario == <<"S","c","e","n","a","r","i","o">>
S_Given == <<"G","i","v","e","n">>
S_When  == <<"W","h","e","n">>
S_Then  == <<"T","h","e","n">>
S_And   == <<"A","n","d">>
S_But   == <<"B","u","t">>
S_UnnamedScenario == <<"U","n","n","a","m","e","d"," ","S","c","e","n","a","r","i","o">>

StepKeywords == <<S_Given, S_When, S_Then, S_And, S_But>>

MsgOneFeature   == "Only one Feature block is allowed."
MsgEmpty        == "Scenario \"${scenarioName}\" cannot be empty."
MsgOutside      == "Step cannot appear outside of a Scenario."
MsgWhenNoGiven  == "When step cannot appear before a Given step."
MsgThenNoWhen   == "Then step cannot appear before a When step."

\* /^<word>\s*:/i : the position of the colon, 0 when the line does not match
ColonAfter(line, word) ==
    LET n == Len(word)
        hits == {j \in (n + 1)..Len(line) :
                    /\ line[j] = ":"
                    /\ \A k \in (n + 1)..(j - 1) : IsSpace(line[k])}
    IN  IF StartsWithIgnoreCase(line, word) /\ hits # {}
        THEN CHOOSE j \in hits : TRUE
        ELSE 0

\* /^Feature\s*:/i.test(line)
IsFeatureLine(line) == ColonAfter(line, S_Feature) > 0

\* /^Scenario\s*:/i.test(line)
IsScenarioLine(line) == ColonAfter(line, S_Scenario) > 0

\* line.replace(/^Scenario\s*:\s*/i, "") || "Unnamed Scenario"
ScenarioNameOf(line) ==
    LET rest == TrimStart(SubSeq(line, ColonAfter(line, S_Scenario) + 1, Len(line)))
    IN  IF rest = <<>> THEN S_UnnamedScenario ELSE rest

\* word followed by \b
WordThenBoundary(line, word) ==
    /\ StartsWithIgnoreCase(line, word)
    /\ (Len(line) = Len(word) \/ ~IsWordChar(line[Len(word) + 1]))

\* line.match(/^(Given|When|Then|And|But)\b/i): group 1, the text as written
\* in the line, or <<>> when there is no match
StepMatch(line) ==
    LET hits == {k \in 1..Len(StepKeywords) : WordThenBoundary(line, StepKeywords[k])}
    IN  IF hits = {} THEN <<>>
        ELSE SubSeq(line, 1, Len(StepKeywords[CHOOSE k \in hits : \A m \in hits : k <= m]))

\* the push closure: model.getLineMaxColumn throws for a line outside the model
Push(st, lines, line, message, name) ==
    IF line \notin 1..Len(lines)
    THEN [st EXCEPT !.threw = TRUE]
    ELSE [st EXCEPT !.markers = Append(@,
            [severity |-> "Error", message |-> message, name |-> name,
             startLineNumber |-> line, endLineNumber |-> line,
             startColumn |-> 1, endColumn |-> Len(lines[line]) + 1])]

\* featureCount > 1
FeatureTooMany_mut(featureCount) == featureCount >= 1
FeatureTooMany(featureCount) == featureCount > 1

\* lineNumber - 1 > 0 ? lineNumber - 1 : lineNumber
EmptyAnchor_mut(lineNumber) == lineNumber
EmptyAnchor(lineNumber) == IF lineNumber - 1 > 0 THEN lineNumber - 1 ELSE lineNumber

\* if (keyword === "Given") seenGiven = true
NextSeenGiven_mut(seenGiven, keyword) == seenGiven \/ keyword \in {S_Given, S_And, S_But}
NextSeenGiven(seenGiven, keyword) == seenGiven \/ keyword = S_Given

\* if (keyword === "When") seenWhen = true
NextSeenWhen(seenWhen, keyword) == seenWhen \/ keyword = S_When

\* if (!inScenario)
OutsideScenario_never(st) == FALSE
OutsideScenario(st) == ~st.inScenario

ValidateStart ==
    [markers |-> <<>>, threw |-> FALSE, featureCount |-> 0, inScenario |-> FALSE,
     scenarioName |-> <<>>, scenarioStepCount |-> 0,
     seenGiven |-> FALSE, seenWhen |-> FALSE]

EmptyName(st) == IF st.scenarioName = <<>> THEN S_UnnamedScenario ELSE st.scenarioName

\* the body of lines.forEach((rawLine, index) => ...)
ProcessLine(st, lines, lineNumber) ==
    LET line == Trim(lines[lineNumber])
        keyword == StepMatch(line)
    IN  IF line = <<>> THEN st
        ELSE IF IsFeatureLine(line) THEN
            LET counted == [st EXCEPT !.featureCount = @ + 1]
            IN  IF FeatureTooMany(counted.featureCount)
                THEN Push(counted, lines, lineNumber, MsgOneFeature, <<>>)
                ELSE counted
        ELSE IF IsScenarioLine(line) THEN
            LET flagged == IF st.inScenario /\ st.scenarioStepCount = 0
                           THEN Push(st, lines, EmptyAnchor(lineNumber), MsgEmpty, EmptyName(st))
                           ELSE st
            IN  [flagged EXCEPT !.inScenario = TRUE, !.scenarioStepCount = 0,
                                !.seenGiven = FALSE, !.seenWhen = FALSE,
                                !.scenarioName = ScenarioNameOf(line)]
        ELSE IF keyword = <<>> THEN st
        ELSE
            LET counted == [st EXCEPT !.scenarioStepCount = @ + 1]
            IN  IF OutsideScenario(counted)
                THEN Push(counted, lines, lineNumber, MsgOutside, <<>>)
                ELSE
                    LET w == IF keyword = S_When /\ ~counted.seenGiven
                             THEN Push(counted, lines, lineNumber, MsgWhenNoGiven, <<>>)
                             ELSE counted
                        t == IF keyword = S_Then /\ ~w.seenWhen
                             THEN Push(w, lines, lineNumber, MsgThenNoWhen, <<>>)
                             ELSE w
                    IN  [t EXCEPT !.seenGiven = NextSeenGiven(@, keyword),
                                  !.seenWhen = NextSeenWhen(@, keyword)]

RECURSIVE ScanLines(_, _, _)
ScanLines(st, lines, lineNumber) ==
    IF lineNumber > Len(lines) \/ st.threw THEN st
    ELSE ScanLines(ProcessLine(st, lines, lineNumber), lines, lineNumber + 1)

\* `lines.length || 1`
LastLineOr1_past(lines) == Len(lines) + 1
LastLineOr1(lines) == IF Len(lines) = 0 THEN 1 ELSE Len(lines)

\* validateModel(model, monaco): the state after the scan and the final check
ValidateRun(lines) ==
    LET st == ScanLines(ValidateStart, lines, 1)
    IN  IF ~st.threw /\ st.inScenario /\ st.scenarioStepCount = 0
        THEN Push(st, lines, LastLineOr1(lines), MsgEmpty, EmptyName(st))
        ELSE st

\* the markers validateModel returns
ValidateModel(lines) == ValidateRun(lines).markers

-----------------------------------------------------------------------------
(* Paths and the tree                                                      *)

S_Slash == <<"/">>
S_features == <<"f","e","a","t","u","r","e","s">>
S_starterPath == <<"f","e","a","t","u","r","e","s","/","m","a","i","n",".","f","e","a","t","u","r","e">>
S_mainFeature == <<"m","a","i","n",".","f","e","a","t","u","r","e">>
S_dotFeature == <<".","f","e","a","t","u","r","e">>

\* DEFAULT_FEATURE_CONTENT, as the lines of a text model
DEFAULT_FEATURE_CONTENT == <<
    <<"F","e","a","t","u","r","e",":"," ","N","e","w"," ","F","e","a","t","u","r","e">>,
    <<>>,
    <<"S","c","e","n","a","r","i","o",":"," ","N","e","w"," ","S","c","e","n","a","r","i","o">>,
    <<" "," ","G","i","v","e","n"," ">> >>

\* the text "" as the lines of a text model
EmptyText == << <<>> >>

\* String.prototype.split("/")
RECURSIVE Split(_)
Split(s) ==
    LET slashes == {i \in 1..Len(s) : s[i] = "/"}
    IN  IF slashes = {} THEN <<s>>
        ELSE LET i == CHOOSE k \in slashes : \A m \in slashes : k <= m
             IN  <<SubSeq(s, 1, i - 1)>> \o Split(SubSeq(s, i + 1, Len(s)))

\* Array.prototype.join("/")
RECURSIVE Join(_)
Join(segments) ==
    IF Len(segments) = 0 THEN <<>>
    ELSE IF Len(segments) = 1 THEN segments[1]
    ELSE segments[1] \o S_Slash \o Join(Tail(segments))

\* .replace(/^\/+|\/+$/g, "")
StripSlashes(s) ==
    LET solid == {i \in 1..Len(s) : s[i] # "/"}
    IN  IF solid = {} THEN <<>>
        ELSE LET first == CHOOSE i \in solid : \A j \in solid : i <= j
                 last  == CHOOSE i \in solid : \A j \in solid : j <= i
             IN  SubSeq(s, first, last)

normalizePathSegment_noTrim(value) == StripSlashes(value)
normalizePathSegment(value) == StripSlashes(Trim(value))

\* .filter(Boolean) on strings
NonEmpty(segment) == segment # <<>>

normalizeFolderPath(path) ==
    LET segments == Split(path)
        cleaned == [i \in 1..Len(segments) |-> normalizePathSegment(segments[i])]
    IN  Join(SelectSeq(cleaned, NonEmpty))

\* path.replace(/[^a-z0-9]/gi, "-")
DashNonAlnum(path) ==
    [i \in 1..Len(path) |->
        IF path[i] \in AlnumChars THEN path[i] ELSE "-"]

TypeText(type) == IF type = "folder" THEN <<"f","o","l","d","e","r">> ELSE <<"f","i","l","e">>

toItemId(type, path) == TypeText(type) \o <<"-">> \o DashNonAlnum(path)

\* String.prototype.lastIndexOf("/"), 1-based, 0 when absent
LastSlash(s) ==
    LET slashes == {i \in 1..Len(s) : s[i] = "/"}
    IN  IF slashes = {} THEN 0 ELSE CHOOSE i \in slashes : \A j \in slashes : j <= i

getParentPath(path) ==
    LET cleanPath == normalizeFolderPath(path)
    IN  IF LastSlash(cleanPath) = 0 THEN <<>> ELSE SubSeq(cleanPath, 1, LastSlash(cleanPath) - 1)

Max(a, b) == IF a >= b THEN a ELSE b

getItemDepth(path) == Max(Len(SelectSeq(Split(path), NonEmpty)) - 1, 0)

getItemName(path) ==
    LET cleanPath == normalizeFolderPath(path)
        segments == SelectSeq(Split(cleanPath), NonEmpty)
    IN  IF Len(segments) = 0 THEN cleanPath ELSE segments[Len(segments)]

\* The primary order of String.prototype.localeCompare (root collation) on the
\* characters of the model: white space, punctuation, digits, letters.
CollationOrder == <<" ", "_", "-", ".", "/">> \o DigitChars \o LowerChars

WeightOf == [c \in Range(CollationOrder) |-> CHOOSE k \in 1..Len(CollationOrder) : CollationOrder[k] = c]
PrimaryWeight(c) == WeightOf[ToLowerChar(c)]

\* U+212A KELVIN SIGN, written by its code point: a character of its own
\* for ===, canonically equivalent to U+004B "K"
KelvinSign == "u212A"

\* the canonical form of a string: localeCompare returns 0 for strings that
\* are canonically equivalent
CanonicalForm(s) == [i \in 1..Len(s) |-> IF s[i] = KelvinSign THEN "K" ELSE s[i]]

\* a.localeCompare(b) as -1, 0 or 1: on the canonical forms, primary weights
\* first, the shorter string first on a tie, then lower case before upper
\* case
localeCompare(a, b) ==
    LET x == CanonicalForm(a)
        y == CanonicalForm(b)
        n == IF Len(x) <= Len(y) THEN Len(x) ELSE Len(y)
        primary == {i \in 1..n : PrimaryWeight(x[i]) # PrimaryWeight(y[i])}
        cased == {i \in 1..n : x[i] # y[i]}
        First(S) == CHOOSE i \in S : \A j \in S : i <= j
    IN  IF primary # {}
        THEN (IF PrimaryWeight(x[First(primary)]) < PrimaryWeight(y[First(primary)]) THEN -1 ELSE 1)
        ELSE IF Len(x) # Len(y) THEN (IF Len(x) < Len(y) THEN -1 ELSE 1)
        ELSE IF cased # {}
        THEN (IF x[First(cased)] \in Range(LowerChars) THEN -1 ELSE 1)
        ELSE 0

\* the comparator of sortTreeItems, as a sign
CompareItems(a, b) ==
    IF a.path = b.path THEN 0
    ELSE IF getItemDepth(a.path) # getItemDepth(b.path)
    THEN (IF getItemDepth(a.path) < getItemDepth(b.path) THEN -1 ELSE 1)
    ELSE IF a.type # b.type THEN (IF a.type = "folder" THEN -1 ELSE 1)
    ELSE localeCompare(a.path, b.path)

\* one step of a stable insertion sort: x moves left past every item that
\* compares greater
InsertItem(sorted, x) ==
    LET notAfter == {k \in 1..Len(sorted) : CompareItems(sorted[k], x) <= 0}
        at == IF notAfter = {} THEN 0 ELSE CHOOSE k \in notAfter : \A m \in notAfter : m <= k
    IN  SubSeq(sorted, 1, at) \o <<x>> \o SubSeq(sorted, at + 1, Len(sorted))

RECURSIVE SortFrom(_, _)
SortFrom(sorted, rest) ==
    IF rest = <<>> THEN sorted ELSE SortFrom(InsertItem(sorted, Head(rest)), Tail(rest))

\* [...items].sort(comparator): Array.prototype.sort is stable.  When two items
\* share a path the comparator is no consistent order and the place of those
\* items depends on the engine's algorithm; the order of such a list is read by
\* no property of this module.
sortTreeItems(list) == SortFrom(<<>>, list)

FolderItem(path, name) == [id |-> toItemId("folder", path), name |-> name, path |-> path, type |-> "folder"]
FileItem(path) == [id |-> toItemId("file", path), name |-> getItemName(path), path |-> path, type |-> "file"]

\* the paths of the folders of a list: the Set `existing`
FolderPaths_anyType(list) == {list[i].path : i \in 1..Len(list)}
FolderPaths(list) == {list[i].path : i \in {k \in 1..Len(list) : list[k].type = "folder"}}

\* the segments.forEach of ensureFolderChain, from segment k on
RECURSIVE ChainFrom(_, _, _, _)
ChainFrom_leafOnly(next, existing, segments, k) ==
    LET runningPath == Join(segments)
    IN  IF runningPath \in existing THEN next
        ELSE Append(next, FolderItem(runningPath, segments[Len(segments)]))
ChainFrom(next, existing, segments, k) ==
    IF k > Len(segments) THEN next
    ELSE LET runningPath == Join(SubSeq(segments, 1, k))
         IN  IF runningPath \in existing
             THEN ChainFrom(next, existing, segments, k + 1)
             ELSE ChainFrom(Append(next, FolderItem(runningPath, segments[k])),
                            existing \cup {runningPath}, segments, k + 1)

ensureFolderChain(list, folderPath) ==
    LET normalized == normalizeFolderPath(folderPath)
    IN  IF normalized = <<>> THEN list
        ELSE ChainFrom(list, FolderPaths(list), Split(normalized), 1)

\* items.some((item) => item.path === fullPath)
PathTaken(list, fullPath) == \E i \in 1..Len(list) : list[i].path = fullPath

\* selectedFolderPath || "features"
OrFeatures(path) == IF path = <<>> THEN S_features ELSE path

\* String.prototype.endsWith
EndsWith(s, suffix) ==
    Len(s) >= Len(suffix) /\ SubSeq(s, Len(s) - Len(suffix) + 1, Len(s)) = suffix

\* fileContents[path] ?? ""
ContentOf(contents, path) == IF path \in DOMAIN contents THEN contents[path] ELSE EmptyText

\* { ...prev, [path]: text }
WithContent_alone(contents, path, text) == [p \in {path} |-> text]
WithContent(contents, path, text) ==
    [p \in DOMAIN contents \cup {path} |-> IF p = path THEN text ELSE contents[p]]

-----------------------------------------------------------------------------
(* The scenario builder (src/pages/apps/AppDetail.tsx)                     *)

S_FeaturePrefix == <<"F","e","a","t","u","r","e",":"," ">>
S_ScenarioPrefix == <<"S","c","e","n","a","r","i","o",":"," ">>
S_FeatureDefault == <<"F","e","a","t","u","r","e">>
S_Newline == <<"\n">>
S_Quote == <<"\"">>

\* the alternatives of PLACEHOLDER_REGEX, in its order
PlaceholderTypes == <<"string", "int", "long", "double">>
PlaceholderText(type) ==
    CASE type = "string" -> <<"{","s","t","r","i","n","g","}">>
      [] type = "int"    -> <<"{","i","n","t","}">>
      [] type = "long"   -> <<"{","l","o","n","g","}">>
      [] type = "double" -> <<"{","d","o","u","b","l","e","}">>

\* the type of the placeholder that starts at position i of s, "" when none
PlaceholderAt(s, i) ==
    LET hits == {k \in 1..Len(PlaceholderTypes) :
                    LET raw == PlaceholderText(PlaceholderTypes[k])
                    IN  i + Len(raw) - 1 <= Len(s) /\ SubSeq(s, i, i + Len(raw) - 1) = raw}
    IN  IF hits = {} THEN ""
        ELSE PlaceholderTypes[CHOOSE k \in hits : \A m \in hits : k <= m]

\* pattern.matchAll(PLACEHOLDER_REGEX), from position i on
RECURSIVE PlaceholdersFrom(_, _)
PlaceholdersFrom(pattern, i) ==
    IF i > Len(pattern) THEN <<>>
    ELSE LET type == PlaceholderAt(pattern, i)
         IN  IF type = "" THEN PlaceholdersFrom(pattern, i + 1)
             ELSE <<[raw |-> PlaceholderText(type), type |-> type]>>
                    \o PlaceholdersFrom(pattern, i + Len(PlaceholderText(type)))

extractPlaceholders(pattern) == PlaceholdersFrom(pattern, 1)

defaultArg(type) ==
    IF type = "string" THEN <<"v","a","l","u","e">>
    ELSE IF type = "double" THEN <<"1",".","0">>
    ELSE <<"1">>

formatArg(type, value) ==
    IF type = "string" THEN S_Quote \o value \o S_Quote
    ELSE IF value = <<>> THEN <<"0">> ELSE value

\* pattern.replace(PLACEHOLDER_REGEX, ...) from position i on, `index`
\* placeholders replaced so far
RECURSIVE MaterializeFrom(_, _, _, _)
MaterializeFrom(pattern, args, i, index) ==
    IF i > Len(pattern) THEN <<>>
    ELSE LET type == PlaceholderAt(pattern, i)
             arg == IF index + 1 <= Len(args) THEN args[index + 1] ELSE <<>>
         IN  IF type = "" THEN <<pattern[i]>> \o MaterializeFrom(pattern, args, i + 1, index)
             ELSE formatArg(type, arg)
                    \o MaterializeFrom(pattern, args, i + Len(PlaceholderText(type)), index + 1)

materializePattern(pattern, args) == MaterializeFrom(pattern, args, 1, 0)

\* String.prototype.trimEnd
TrimEnd(s) ==
    LET solid == {i \in 1..Len(s) : ~IsSpace(s[i])}
    IN  IF solid = {} THEN <<>>
        ELSE SubSeq(s, 1, CHOOSE i \in solid : \A j \in solid : j <= i)

\* lines.join("\n")
RECURSIVE JoinLines(_)
JoinLines(lines) ==
    IF Len(lines) = 0 THEN <<>>
    ELSE IF Len(lines) = 1 THEN lines[1]
    ELSE lines[1] \o S_Newline \o JoinLines(Tail(lines))

StepBody(step) ==
    IF step.source = "existing" /\ step.pattern # <<>>
    THEN materializePattern(step.pattern, step.args)
    ELSE step.customText

StepLine(step) == <<" ", " ">> \o step.keyword \o <<" ">> \o StepBody(step)

ScenarioLines(scenario) ==
    <<S_ScenarioPrefix \o scenario.name>>
        \o [k \in 1..Len(scenario.steps) |-> StepLine(scenario.steps[k])]
        \o << <<>> >>

RECURSIVE AllScenarioLines(_)
AllScenarioLines(scenarioList) ==
    IF scenarioList = <<>> THEN <<>>
    ELSE ScenarioLines(Head(scenarioList)) \o AllScenarioLines(Tail(scenarioList))

buildFeatureContent(model) ==
    TrimEnd(JoinLines(<<S_FeaturePrefix \o model.featureName, <<>> >>
                        \o AllScenarioLines(model.scenarios))) \o S_Newline

HasKeyword(steps, keyword) == \E k \in 1..Len(steps) : steps[k].keyword = keyword

allowedKeywords_any(steps) == {S_Given, S_When, S_Then}
allowedKeywords(steps) ==
    IF ~HasKeyword(steps, S_When) /\ ~HasKeyword(steps, S_Then) THEN {S_Given, S_When}
    ELSE IF HasKeyword(steps, S_When) /\ ~HasKeyword(steps, S_Then) THEN {S_When, S_Then}
    ELSE {S_Then}

\* fileName.replace(/\.feature$/i, "")
WithoutFeatureSuffix(fileName) ==
    IF Len(fileName) >= Len(S_dotFeature)
       /\ ToLowerCase(SubSeq(fileName, Len(fileName) - Len(S_dotFeature) + 1, Len(fileName))) = S_dotFeature
    THEN SubSeq(fileName, 1, Len(fileName) - Len(S_dotFeature))
    ELSE fileName

createDefaultFeatureModel(fileName) ==
    LET safe == Trim(WithoutFeatureSuffix(fileName))
    IN  [featureName |-> IF safe = <<>> THEN S_FeatureDefault ELSE safe, scenarios |-> <<>>]

MsgScenarioName == "Scenario name is required."
MsgSelectScenario == "Select a scenario before adding steps."
MsgKeywordOrder == "Invalid keyword order. Steps must follow Given -> When -> Then."
MsgChoosePattern == "Choose a matching step definition."
MsgCustomText == "Custom step text is required."

-----------------------------------------------------------------------------
(* The step catalog: normalizeStepPattern and flattenSteps                 *)
(* A parsed response body carries its buckets as the properties of an      *)
(* object; the model keeps them as a sequence of [name, value] records in  *)
(* the order the payload wrote them, names pairwise distinct.              *)

\* step.replace(/\s+/g, " "): every run of whitespace becomes one space
CollapseSpaces(s) ==
    LET ends == [i \in 1..Len(s) |->
                    [c |-> IF IsSpace(s[i]) THEN " " ELSE s[i],
                     kept |-> ~IsSpace(s[i]) \/ i = Len(s) \/ ~IsSpace(s[i + 1])]]
        IsKept(e) == e.kept
        run == SelectSeq(ends, IsKept)
    IN  [i \in 1..Len(run) |-> run[i].c]

normalizeStepPattern(step) == Trim(CollapseSpaces(step))

IsDigits(s) == \A i \in 1..Len(s) : s[i] \in Range(DigitChars)

DigitValue == [c \in Range(DigitChars) |-> (CHOOSE i \in 1..10 : DigitChars[i] = c) - 1]

\* a < b for two digit strings of the same length
RECURSIVE DigitsLess(_, _)
DigitsLess(a, b) ==
    IF a = <<>> THEN FALSE
    ELSE IF Head(a) # Head(b) THEN DigitValue[Head(a)] < DigitValue[Head(b)]
    ELSE DigitsLess(Tail(a), Tail(b))

\* a < b for two canonical numeric strings
IndexLess(a, b) == Len(a) < Len(b) \/ (Len(a) = Len(b) /\ DigitsLess(a, b))

\* the largest array index, 2^32 - 2
S_MaxArrayIndex == <<"4","2","9","4","9","6","7","2","9","4">>

\* a property name that is an array index: the canonical decimal form of an
\* integer from 0 to 2^32 - 2
IsArrayIndex(name) ==
    /\ name # <<>> /\ IsDigits(name)
    /\ (Len(name) = 1 \/ name[1] # "0")
    /\ ~IndexLess(S_MaxArrayIndex, name)

\* the array-index names of a list of properties, ascending
RECURSIVE IndexProperties(_)
IndexProperties(properties) ==
    LET indexed == {k \in 1..Len(properties) : IsArrayIndex(properties[k].name)}
        least == CHOOSE k \in indexed :
                    \A m \in indexed : ~IndexLess(properties[m].name, properties[k].name)
        keep(property) == property # properties[least]
    IN  IF indexed = {} THEN <<>>
        ELSE <<properties[least]>> \o IndexProperties(SelectSeq(properties, keep))

\* the own properties of an object in enumeration order: array indices in
\* ascending numeric order, then the other names in order of creation
OwnProperties(properties) ==
    LET other(property) == ~IsArrayIndex(property.name)
    IN  IndexProperties(properties) \o SelectSeq(properties, other)

\* Object.values(buckets)
ObjectValues(properties) ==
    [k \in 1..Len(properties) |-> OwnProperties(properties)[k].value]

\* a bucket value is an array with its items, or a value that is no array
\* (null, a number, a string, an object); an item is a string with its text,
\* or a value that is no string (null, a number, an object)
ArrayOf(list) == [isArray |-> TRUE, list |-> list]
NotAnArray == [isArray |-> FALSE, list |-> <<>>]
StringItem(text) == [isString |-> TRUE, text |-> text]
NotAString == [isString |-> FALSE, text |-> <<>>]

\* the Map `all` is a sequence of [key, value] entries in insertion order
MapHas(all, key) == \E k \in 1..Len(all) : all[k].key = key

\* the walk carries the Map and whether a TypeError has been thrown
Thrown(walk) == [walk EXCEPT !.threw = TRUE]

\* the body of the inner forEach; item.replace is not a function when the
\* item is no string
VisitItem(walk, item) ==
    LET normalized == normalizeStepPattern(item.text)
        key == ToLowerCase(normalized)
    IN  IF walk.threw THEN walk
        ELSE IF ~item.isString THEN Thrown(walk)
        ELSE IF normalized = <<>> THEN walk
        ELSE IF ~MapHas(walk.all, key)
        THEN [walk EXCEPT !.all = Append(@, [key |-> key, value |-> normalized])]
        ELSE walk

RECURSIVE VisitItems(_, _)
VisitItems(walk, list) ==
    IF list = <<>> THEN walk ELSE VisitItems(VisitItem(walk, Head(list)), Tail(list))

\* list.forEach(...); list.forEach is not a function when the bucket value
\* is no array
VisitList(walk, value) ==
    IF walk.threw THEN walk
    ELSE IF ~value.isArray THEN Thrown(walk)
    ELSE VisitItems(walk, value.list)

RECURSIVE VisitLists(_, _)
VisitLists(walk, values) ==
    IF values = <<>> THEN walk ELSE VisitLists(VisitList(walk, Head(values)), Tail(values))

\* a response body without data.steps and one with it
NoSteps == [hasSteps |-> FALSE, steps |-> <<>>]
WithSteps(buckets) == [hasSteps |-> TRUE, steps |-> buckets]

\* the outcome of a call: the value returned, or an exception thrown
Returned(value) == [threw |-> FALSE, value |-> value]
Threw == [threw |-> TRUE, value |-> <<>>]

flattenSteps(response) ==
    IF ~response.hasSteps THEN Returned(<<>>)
    ELSE LET end == VisitLists([threw |-> FALSE, all |-> <<>>], ObjectValues(response.steps))
         IN  IF end.threw THEN Threw
             ELSE Returned([k \in 1..Len(end.all) |-> end.all[k].value])

\* flattenSteps of the scenario builder page: the items go into a Set as
\* they are
SetAdd(set, item) == IF \E k \in 1..Len(set) : set[k] = item THEN set ELSE Append(set, item)

RECURSIVE AddItems(_, _)
AddItems(set, list) == IF list = <<>> THEN set ELSE AddItems(SetAdd(set, Head(list)), Tail(list))

RECURSIVE AddLists(_, _)
AddLists(walk, values) ==
    IF values = <<>> \/ walk.threw THEN walk
    ELSE IF ~Head(values).isArray THEN Thrown(walk)
    ELSE AddLists([walk EXCEPT !.all = AddItems(@, Head(values).list)], Tail(values))

builderFlattenSteps(response) ==
    IF ~response.hasSteps THEN Returned(<<>>)
    ELSE LET end == AddLists([threw |-> FALSE, all |-> <<>>], ObjectValues(response.steps))
         IN  IF end.threw THEN Threw ELSE Returned(end.all)

-----------------------------------------------------------------------------
(* The completion provider: fuzzyScore, buildStepSnippet, suggestions      *)

\* the value null of a score
null == -1

\* String.prototype.indexOf: the first position (from 0) at which q occurs
\* in v, -1 when it does not occur
IndexOf(v, q) ==
    LET found == {i \in 0..(Len(v) - Len(q)) : SubSeq(v, i + 1, i + Len(q)) = q}
    IN  IF found = {} THEN -1 ELSE CHOOSE i \in found : \A j \in found : i <= j

\* String.prototype.includes
Includes(v, q) == IndexOf(v, q) # -1

\* the for loop of fuzzyScore, from position i of v with qi characters of q
\* matched and `gaps` characters skipped; the iterations up to the next
\* occurrence of q[qi] are taken together, each of them adds one to gaps
RECURSIVE FuzzyScan(_, _, _, _, _)
FuzzyScan(q, v, i, qi, gaps) ==
    IF i < Len(v) /\ qi < Len(q)
    THEN LET hits == {j \in i..(Len(v) - 1) : v[j + 1] = q[qi + 1]}
             next == CHOOSE j \in hits : \A k \in hits : j <= k
         IN  IF hits = {} THEN [qi |-> qi, gaps |-> gaps + (Len(v) - i)]
             ELSE FuzzyScan(q, v, next + 1, qi + 1, gaps + (next - i))
    ELSE [qi |-> qi, gaps |-> gaps]

SubsequenceScore(gaps) == 100 + gaps

fuzzyScore_noTrim(query, value) ==
    LET q == ToLowerCase(query)
        v == ToLowerCase(value)
        end == FuzzyScan(q, v, 0, 0, 0)
    IN  IF q = <<>> THEN 0
        ELSE IF Includes(v, q) THEN IndexOf(v, q)
        ELSE IF end.qi = Len(q) THEN SubsequenceScore(end.gaps) ELSE null
fuzzyScore(query, value) ==
    LET q == Trim(ToLowerCase(query))
        v == ToLowerCase(value)
        end == FuzzyScan(q, v, 0, 0, 0)
    IN  IF q = <<>> THEN 0
        ELSE IF Includes(v, q) THEN IndexOf(v, q)
        ELSE IF end.qi = Len(q) THEN SubsequenceScore(end.gaps) ELSE null

\* fuzzyScore of the scenario builder page
RECURSIVE BuilderFuzzyScan(_, _, _, _, _)
BuilderFuzzyScan(q, t, i, qIndex, jumps) ==
    IF i < Len(t) /\ qIndex < Len(q)
    THEN IF t[i + 1] = q[qIndex + 1] THEN BuilderFuzzyScan(q, t, i + 1, qIndex + 1, jumps)
         ELSE BuilderFuzzyScan(q, t, i + 1, qIndex, jumps + 1)
    ELSE [qIndex |-> qIndex, jumps |-> jumps]

builderFuzzyScore(query, text) ==
    LET q == Trim(ToLowerCase(query))
        t == ToLowerCase(text)
        end == BuilderFuzzyScan(q, t, 0, 0, 0)
    IN  IF q = <<>> THEN 0
        ELSE IF Includes(t, q) THEN IndexOf(t, q)
        ELSE IF end.qIndex = Len(q) THEN 100 + end.jumps ELSE null

\* the decimal text of a non-negative integer, as string concatenation
\* writes it
RECURSIVE NumberText(_)
NumberText(n) ==
    IF n < 10 THEN <<DigitChars[n + 1]>>
    ELSE NumberText(n \div 10) \o <<DigitChars[(n % 10) + 1]>>

\* '${' + index + ':' + text + '}'
StopText(index, text) == <<"$", "{">> \o NumberText(index) \o <<":">> \o text \o <<"}">>

\* the replacement buildStepSnippet returns for a placeholder of `type`
TabStop_noDouble(type, index) ==
    IF type = "string" THEN S_Quote \o StopText(index, <<"v","a","l","u","e">>) \o S_Quote
    ELSE StopText(index, <<"0">>)
TabStop(type, index) ==
    IF type = "string" THEN S_Quote \o StopText(index, <<"v","a","l","u","e">>) \o S_Quote
    ELSE IF type = "double" THEN StopText(index, <<"0",".","0">>)
    ELSE StopText(index, <<"0">>)

\* pattern.replace(PLACEHOLDER_REGEX, ...) from position i on, the next
\* tab-stop being `index`: the text up to the next placeholder is kept
RECURSIVE SnippetFrom(_, _, _)
SnippetFrom(pattern, i, index) ==
    LET starts == {j \in i..Len(pattern) : PlaceholderAt(pattern, j) # ""}
        next == CHOOSE j \in starts : \A k \in starts : j <= k
        type == PlaceholderAt(pattern, next)
    IN  IF starts = {} THEN SubSeq(pattern, i, Len(pattern))
        ELSE SubSeq(pattern, i, next - 1) \o TabStop(type, index)
                \o SnippetFrom(pattern, next + Len(PlaceholderText(type)), index + 1)

buildStepSnippet(keyword, pattern) == keyword \o <<" ">> \o SnippetFrom(pattern, 1, 1)

\* KEYWORD_SNIPPETS
KEYWORD_SNIPPETS ==
    <<S_Feature \o <<":">>, S_Scenario \o <<":">>, S_Given, S_When, S_Then, S_And>>

\* .slice(0, 50)
SuggestionLimit == 50

\* /^[A-Za-z]*$/.test(s)
IsLetters(s) == \A i \in 1..Len(s) : s[i] \in Range(UpperChars) \cup Range(LowerChars)

\* trimmed.match(/^(Given|When|Then|And|But)\s+(.+)?$/i): [matched, keyword as
\* written, query]; group 2 is undefined when nothing follows the whitespace
\* and the query is then ""
KeywordMatch(trimmed) ==
    LET hits == {k \in 1..Len(StepKeywords) :
                    /\ StartsWithIgnoreCase(trimmed, StepKeywords[k])
                    /\ Len(trimmed) > Len(StepKeywords[k])
                    /\ IsSpace(trimmed[Len(StepKeywords[k]) + 1])}
        word == StepKeywords[CHOOSE k \in hits : \A m \in hits : k <= m]
        rest == SubSeq(trimmed, Len(word) + 1, Len(trimmed))
    IN  IF hits = {} THEN [matched |-> FALSE, keyword |-> <<>>, query |-> <<>>]
        ELSE [matched |-> TRUE, keyword |-> SubSeq(trimmed, 1, Len(word)),
              query |-> TrimStart(rest)]

\* .map(normalizeStepPattern).filter(...): the normalized steps that are not
\* empty, first occurrences when letter case is ignored (the set `seen`
\* holds the lower-case keys of the entries before the one tested)
UniqueSteps(steps) ==
    LET normalized == [k \in 1..Len(steps) |-> normalizeStepPattern(steps[k])]
        tagged == [k \in 1..Len(steps) |->
                    [step |-> normalized[k],
                     kept |-> /\ normalized[k] # <<>>
                              /\ \A j \in 1..(k - 1) :
                                    ToLowerCase(normalized[j]) # ToLowerCase(normalized[k])]]
        IsKept(e) == e.kept
        run == SelectSeq(tagged, IsKept)
    IN  [k \in 1..Len(run) |-> run[k].step]

\* .map((step) => ({ step, score: fuzzyScore(query, step) }))
Scored(steps, query) ==
    [k \in 1..Len(steps) |-> [step |-> steps[k], score |-> fuzzyScore(query, steps[k])]]

NotNull(entry) == entry.score # null

\* .sort((a, b) => a.score - b.score): Array.prototype.sort is stable, so
\* an entry goes after those of lower score and after the earlier ones of
\* equal score
PlaceByScore(entries, k) ==
    Cardinality({j \in 1..Len(entries) :
                    \/ entries[j].score - entries[k].score < 0
                    \/ entries[j].score - entries[k].score = 0 /\ j <= k})

SortByScore_none(entries) == entries
SortByScore(entries) ==
    [p \in 1..Len(entries) |->
        entries[CHOOSE k \in 1..Len(entries) : PlaceByScore(entries, k) = p]]

\* Array.prototype.slice(0, n)
SliceTo(list, n) == SubSeq(list, 1, IF Len(list) < n THEN Len(list) ELSE n)

\* the list `filtered`
FilteredSteps(steps, query) ==
    SliceTo(SortByScore(SelectSeq(Scored(UniqueSteps(steps), query), NotNull)),
            SuggestionLimit)

KeywordSuggestions(linePrefix) ==
    LET trimmed == TrimStart(linePrefix)
    IN  IF trimmed = <<>> \/ IsLetters(trimmed)
        THEN [k \in 1..Len(KEYWORD_SNIPPETS) |->
                [label |-> KEYWORD_SNIPPETS[k], kind |-> "Keyword",
                 insertText |-> KEYWORD_SNIPPETS[k] \o <<" ">>,
                 startColumn |-> (Len(linePrefix) - Len(trimmed)) + 1,
                 endColumn |-> Len(linePrefix) + 1]]
        ELSE <<>>

StepSuggestions(steps, linePrefix) ==
    LET keywordMatch == KeywordMatch(TrimStart(linePrefix))
        filtered == FilteredSteps(steps, keywordMatch.query)
    IN  IF ~keywordMatch.matched THEN <<>>
        ELSE [k \in 1..Len(filtered) |->
                [label |-> filtered[k].step, kind |-> "Snippet",
                 insertText |-> buildStepSnippet(keywordMatch.keyword, filtered[k].step),
                 startColumn |-> IndexOf(linePrefix, keywordMatch.keyword) + 1,
                 endColumn |-> Len(linePrefix) + 1]]

\* `${item.label}-${item.insertText}`
SuggestionKey(item) == item.label \o <<"-">> \o item.insertText

\* the filter that keeps the first suggestion of every key
UniqueSuggestions(suggestions) ==
    LET tagged == [k \in 1..Len(suggestions) |->
                    [item |-> suggestions[k],
                     kept |-> \A j \in 1..(k - 1) :
                                SuggestionKey(suggestions[j]) # SuggestionKey(suggestions[k])]]
        IsKept(e) == e.kept
        run == SelectSeq(tagged, IsKept)
    IN  [k \in 1..Len(run) |-> run[k].item]

\* provideCompletionItems with the catalog `steps` in stepsRef.current and
\* the text `linePrefix` from column 1 to the cursor
provideCompletionItems(steps, linePrefix) ==
    UniqueSuggestions(KeywordSuggestions(linePrefix) \o StepSuggestions(steps, linePrefix))

-----------------------------------------------------------------------------
(* registerLanguage and onMount                                            *)
(* A completion provider is the number of the registration that made it;   *)
(* completionProviderDisposable is that number, 0 for null.                *)

\* completionProviderDisposable?.dispose()
DisposePrevious_keep(held, disposable) == held
DisposePrevious(held, disposable) == held \ {disposable}

\* registerLanguage(monaco, stepsRef)
registerLanguage ==
    LET fresh == completionProviderDisposable + 1
    IN  /\ languageRegistered' = TRUE
        /\ registrations' = IF languageRegistered THEN registrations ELSE registrations + 1
        /\ providers' = DisposePrevious(providers, completionProviderDisposable) \cup {fresh}
        /\ completionProviderDisposable' = fresh

\* onMount(editor, monaco)
onMount ==
    IF ~initializedRef
    THEN registerLanguage /\ initializedRef' = TRUE
    ELSE UNCHANGED <<languageRegistered, registrations, providers,
                     completionProviderDisposable, initializedRef>>

-----------------------------------------------------------------------------
(* stringifyTree                                                           *)
(* A node is [type, name, children, content]; a file has no children and a *)
(* folder no content.  A folder without the optional property `children`   *)
(* serializes like one whose children are the empty list.                  *)

\* String.prototype.split("\n")
RECURSIVE SplitLines(_)
SplitLines(s) ==
    LET breaks == {i \in 1..Len(s) : s[i] = "\n"}
        first == CHOOSE i \in breaks : \A j \in breaks : i <= j
    IN  IF breaks = {} THEN <<s>>
        ELSE <<SubSeq(s, 1, first - 1)>> \o SplitLines(SubSeq(s, first + 1, Len(s)))

\* "  ".repeat(indent)
Pad(indent) == [k \in 1..(2 * indent) |-> " "]

S_FolderTag == <<"[","F","o","l","d","e","r","]"," ">>
S_FileTag == <<"[","F","i","l","e","]"," ">>

\* the indented content of a file: split, prefix every piece, join, newline
IndentedContent(content, pad) ==
    LET pieces == SplitLines(content)
    IN  JoinLines([k \in 1..Len(pieces) |-> pad \o <<" ", " ">> \o pieces[k]]) \o S_Newline

\* stringifyTree of the scenario builder page
RECURSIVE stringifyTree(_, _)
stringifyTree(nodes, indent) ==
    LET pad == Pad(indent)
        node == Head(nodes)
        text == IF node.type = "folder"
                THEN pad \o S_FolderTag \o node.name \o S_Newline
                        \o stringifyTree(node.children, indent + 1)
                ELSE pad \o S_FileTag \o node.name \o S_Newline
                        \o (IF node.content # <<>> THEN IndentedContent(node.content, pad)
                            ELSE <<>>)
    IN  IF nodes = <<>> THEN <<>> ELSE text \o stringifyTree(Tail(nodes), indent)

\* stringifyTree of the editor page with the Save button
RECURSIVE editorStringifyTree(_, _)
editorStringifyTree(nodes, indent) ==
    LET pad == Pad(indent)
        node == Head(nodes)
        content == JoinLines([k \in 1..Len(SplitLines(node.content)) |->
                                pad \o <<" ", " ">> \o SplitLines(node.content)[k]])
        text == IF node.type = "folder"
                THEN pad \o S_FolderTag \o node.name \o S_Newline
                        \o editorStringifyTree(node.children, indent + 1)
                ELSE pad \o S_FileTag \o node.name \o S_Newline
                        \o (IF node.content # <<>> THEN content \o S_Newline ELSE <<>>)
    IN  IF nodes = <<>> THEN <<>> ELSE text \o editorStringifyTree(Tail(nodes), indent)

-----------------------------------------------------------------------------
(* SpecValidate: validateModel on every document of at most MaxLines lines *)

MaxLines == 3

SampleLines == {
    <<" ">>,
    <<"F","e","a","t","u","r","e",":"," ","X">>,
    <<"S","c","e","n","a","r","i","o",":"," ","A">>,
    <<"s","c","e","n","a","r","i","o"," ",":">>,
    <<" ","G","i","v","e","n"," ","x">>,
    <<"W","h","e","n"," ","y">>,
    <<"T","h","e","n"," ","z">>,
    <<"A","n","d"," ","w">>,
    <<"B","u","t"," ","v">>,
    <<"w","h","e","n"," ","y">>,
    <<"g","i","v","e","n"," ","x">>,
    <<"W","h","e","n","e","v","e","r">> }

\* a text model holds at least one line (the empty document is one empty line)
Documents == UNION {[1..n -> SampleLines] : n \in 1..MaxLines}

InitValidate ==
    /\ vLines \in Documents
    /\ vMarkers = <<>>
    /\ vDone = FALSE
    /\ IdleTree /\ IdleChain /\ IdleBuilder /\ IdleFlatten /\ IdlePure /\ IdleCatalog
    /\ IdleRegister /\ IdleAuth

RunValidate ==
    /\ ~vDone
    /\ vMarkers' = ValidateModel(vLines)
    /\ vDone' = TRUE
    /\ UNCHANGED <<vLines, tvars, cvars, bvars, fvars, pvars, kvars, rvars, avars>>

NextValidate == RunValidate

SpecValidate == InitValidate /\ [][NextValidate]_vars

-----------------------------------------------------------------------------
(* SpecTree: the Monaco page: tree, selection, stored texts, editor        *)

MaxItems == 4

\* what the user types into the new-folder and new-feature-file inputs
FolderNameInputs == {
    <<"a">>,
    <<" ","b","/","c"," ">>,
    <<"m","a","i","n",".","f","e","a","t","u","r","e","/","x">>,
    <<"/">> }
FileNameInputs == {
    <<"m","a","i","n">>,
    <<"a","/","t">>,
    <<"t",".","f","e","a","t","u","r","e">>,
    <<" ">> }

\* the texts the user edits a document into
SampleTexts == {
    << <<"S","c","e","n","a","r","i","o",":"," ","S">> >>,
    << <<"S","c","e","n","a","r","i","o",":"," ","S">>, <<"W","h","e","n"," ","x">> >> }

Op(op, outcome) == [op |-> op, outcome |-> outcome]

\* onMount: a fresh editor on a fresh text model holding `text`; validate()
\* attaches the markers of that text
MountMarkers_none(text) == <<>>
MountMarkers(text) == ValidateModel(text)

\* the useEffect that builds the initial tree, and the first mount of the editor
InitTree ==
    /\ items = <<FolderItem(S_features, S_features), FileItem(S_starterPath)>>
    /\ selectedFolderPath = S_features
    /\ selectedFilePath = S_starterPath
    /\ fileContents = (S_starterPath :> DEFAULT_FEATURE_CONTENT)
    /\ edText = DEFAULT_FEATURE_CONTENT
    /\ edMarkers = MountMarkers(DEFAULT_FEATURE_CONTENT)
    /\ lastOp = Op("init", "done")
    /\ IdleValidate /\ IdleChain /\ IdleBuilder /\ IdleFlatten /\ IdlePure /\ IdleCatalog
    /\ IdleRegister /\ IdleAuth

\* `${baseFolder}/${name}` normalized
FullPathIn(baseFolder, name) == normalizeFolderPath(baseFolder \o S_Slash \o name)

FolderFullPath(newFolderName) ==
    FullPathIn(normalizeFolderPath(OrFeatures(selectedFolderPath)), normalizeFolderPath(newFolderName))

\* if (items.some((item) => item.path === fullPath)) return;
Collides_never(list, fullPath) == FALSE
Collides(list, fullPath) == PathTaken(list, fullPath)

createFolder(newFolderName) ==
    LET folderName == normalizeFolderPath(newFolderName)
        fullPath == FolderFullPath(newFolderName)
        grown == ensureFolderChain(items, fullPath)
    IN  IF folderName = <<>> \/ fullPath = <<>>
        THEN /\ lastOp' = Op("createFolder", "empty")
             /\ UNCHANGED <<items, selectedFilePath, selectedFolderPath, fileContents, edText, edMarkers>>
        ELSE IF Collides(items, fullPath)
        THEN /\ lastOp' = Op("createFolder", "taken")
             /\ UNCHANGED <<items, selectedFilePath, selectedFolderPath, fileContents, edText, edMarkers>>
        ELSE /\ Len(grown) <= MaxItems
             /\ items' = sortTreeItems(grown)
             /\ selectedFolderPath' = fullPath
             /\ lastOp' = Op("createFolder", "done")
             /\ UNCHANGED <<selectedFilePath, fileContents, edText, edMarkers>>

\* fileName.endsWith(".feature") ? fileName : `${fileName}.feature`
WithFeatureSuffix(fileName) == IF EndsWith(fileName, S_dotFeature) THEN fileName ELSE fileName \o S_dotFeature

FileFullPath(newFileName) ==
    FullPathIn(normalizeFolderPath(OrFeatures(selectedFolderPath)),
               WithFeatureSuffix(normalizeFolderPath(newFileName)))

createFeatureFile(newFileName) ==
    LET fileName == normalizeFolderPath(newFileName)
        baseFolder == normalizeFolderPath(OrFeatures(selectedFolderPath))
        fullPath == FileFullPath(newFileName)
        parentFolder == getParentPath(fullPath)
        target == IF parentFolder = <<>> THEN baseFolder ELSE parentFolder
        grown == Append(ensureFolderChain(items, target), FileItem(fullPath))
    IN  IF fileName = <<>> \/ fullPath = <<>>
        THEN /\ lastOp' = Op("createFeatureFile", "empty")
             /\ UNCHANGED <<items, selectedFilePath, selectedFolderPath, fileContents, edText, edMarkers>>
        ELSE IF Collides(items, fullPath)
        THEN /\ lastOp' = Op("createFeatureFile", "taken")
             /\ UNCHANGED <<items, selectedFilePath, selectedFolderPath, fileContents, edText, edMarkers>>
        ELSE /\ Len(grown) <= MaxItems
             /\ items' = sortTreeItems(grown)
             /\ fileContents' = WithContent(fileContents, fullPath, DEFAULT_FEATURE_CONTENT)
             /\ selectedFilePath' = fullPath
             /\ selectedFolderPath' = target
             \* key={selectedFilePath}: the editor is mounted afresh on the new text
             /\ edText' = ContentOf(fileContents', fullPath)
             /\ edMarkers' = MountMarkers(edText')
             /\ lastOp' = Op("createFeatureFile", "done")

\* the onClick of a row of the tree
clickItem(i) ==
    IF items[i].type = "folder"
    THEN /\ selectedFolderPath' = items[i].path
         /\ lastOp' = Op("clickFolder", "done")
         /\ UNCHANGED <<items, selectedFilePath, fileContents, edText, edMarkers>>
    ELSE /\ selectedFilePath' = items[i].path
         /\ selectedFolderPath' = OrFeatures(getParentPath(items[i].path))
         /\ lastOp' = Op("clickFile", "done")
         /\ IF items[i].path = selectedFilePath
            THEN UNCHANGED <<edText, edMarkers>>
            ELSE /\ edText' = ContentOf(fileContents, items[i].path)
                 /\ edMarkers' = MountMarkers(edText')
         /\ UNCHANGED <<items, fileContents>>

\* a content change of the open text model: the onDidChangeModelContent
\* listener runs validate(), the onChange prop stores the text
editorChange(text) ==
    /\ text # edText
    /\ edText' = text
    /\ edMarkers' = ValidateModel(text)
    /\ fileContents' = WithContent(fileContents, selectedFilePath, text)
    /\ lastOp' = Op("editorChange", "done")
    /\ UNCHANGED <<items, selectedFilePath, selectedFolderPath>>

NextTree ==
    \/ \E n \in FolderNameInputs : createFolder(n) /\ UNCHANGED <<vvars, cvars, bvars, fvars, pvars, kvars, rvars, avars>>
    \/ \E n \in FileNameInputs : createFeatureFile(n) /\ UNCHANGED <<vvars, cvars, bvars, fvars, pvars, kvars, rvars, avars>>
    \/ \E i \in 1..Len(items) : clickItem(i) /\ UNCHANGED <<vvars, cvars, bvars, fvars, pvars, kvars, rvars, avars>>
    \/ \E text \in SampleTexts : editorChange(text) /\ UNCHANGED <<vvars, cvars, bvars, fvars, pvars, kvars, rvars, avars>>

SpecTree == InitTree /\ [][NextTree]_vars

-----------------------------------------------------------------------------
(* SpecChain: ensureFolderChain on lists of at most MaxChainItems items    *)

MaxChainItems == 2

ChainPaths == { <<"a">>, <<"a","/","b">>, <<"b">> }
ChainItems ==
    {FolderItem(p, getItemName(p)) : p \in ChainPaths} \cup {FileItem(p) : p \in ChainPaths}

\* the lists that hold at most one folder per path
ChainLists ==
    {list \in UNION {[1..n -> ChainItems] : n \in 0..MaxChainItems} :
        \A i, j \in 1..Len(list) :
            (i # j /\ list[i].type = "folder" /\ list[j].type = "folder") => list[i].path # list[j].path}

\* the folderPath arguments, normalized or not
ChainArguments == {
    <<>>,
    <<"/">>,
    <<"b">>,
    <<"a","/","b">>,
    <<" ","a","/","/","b"," ","/">>,
    <<"a","/","b","/","c">> }

InitChain ==
    /\ cItems \in ChainLists
    /\ cPath \in ChainArguments
    /\ cOut = <<>>
    /\ cDone = FALSE
    /\ IdleValidate /\ IdleTree /\ IdleBuilder /\ IdleFlatten /\ IdlePure /\ IdleCatalog
    /\ IdleRegister /\ IdleAuth

RunChain ==
    /\ ~cDone
    /\ cOut' = ensureFolderChain(cItems, cPath)
    /\ cDone' = TRUE
    /\ UNCHANGED <<cItems, cPath, vvars, tvars, bvars, fvars, pvars, kvars, rvars, avars>>

NextChain == RunChain

SpecChain == InitChain /\ [][NextChain]_vars

-----------------------------------------------------------------------------
(* SpecBuilder: the scenario builder page                                  *)
(* fileNodes holds the file nodes of the tree (folders carry no state the  *)
(* builder reads); selectedFile is the position of the selected node, 0    *)
(* for null.  uid() slices a random number written in base 36: a draw is   *)
(* any member of UidDraws, and two draws may coincide; selectedScenarioId  *)
(* 0 stands for "".  The form fields (names, keyword, source, pattern,     *)
(* custom text) are what the user has typed when a handler runs.           *)

MaxFiles == 1
\* scenarios plus steps, over all files
MaxEntries == 3

UidDraws == {1, 2}

BuilderFileNames == { <<"t",".","f","e","a","t","u","r","e">>, <<" ">> }
BuilderScenarioNames == { <<"S">>, <<" ">> }
BuilderKeywords == {S_Given, S_When, S_Then}
\* what the step form holds when Add Step is pressed: the source, the
\* selected pattern and the custom text
BuilderPattern == <<"x"," ","{","s","t","r","i","n","g","}"," ","{","i","n","t","}">>
BuilderForms ==
    { [stepSource |-> "existing", selectedPattern |-> <<>>, customStepText |-> <<>>],
      [stepSource |-> "existing", selectedPattern |-> BuilderPattern, customStepText |-> <<"t">>],
      [stepSource |-> "custom", selectedPattern |-> <<>>, customStepText |-> <<" ">>],
      [stepSource |-> "custom", selectedPattern |-> BuilderPattern, customStepText |-> <<" ","t">>] }

InitBuilder ==
    /\ fileNodes = <<>>
    /\ selectedFile = 0
    /\ selectedScenarioId = 0
    /\ validationMessage = ""
    /\ IdleValidate /\ IdleTree /\ IdleChain /\ IdleFlatten /\ IdlePure /\ IdleCatalog
    /\ IdleRegister /\ IdleAuth

\* selectedFile.featureModel
SelectedModel == fileNodes[selectedFile].featureModel

\* featureModel?.scenarios.find((scenario) => scenario.id === selectedScenarioId):
\* its position, 0 for undefined
CurrentScenario ==
    IF selectedFile = 0 THEN 0
    ELSE LET hits == {k \in 1..Len(SelectedModel.scenarios) :
                        SelectedModel.scenarios[k].id = selectedScenarioId}
         IN  IF hits = {} THEN 0 ELSE CHOOSE k \in hits : \A m \in hits : k <= m

\* the selected file with its model replaced and syncSelectedFile() run
Synced(model) ==
    [fileNodes EXCEPT ![selectedFile] =
        [@ EXCEPT !.featureModel = model, !.content = buildFeatureContent(model)]]

\* the node addFile adds to the folder
NewFileNode(clean) ==
    [name |-> clean, type |-> "file",
     featureModel |-> createDefaultFeatureModel(clean),
     content |-> S_FeaturePrefix \o WithoutFeatureSuffix(clean)]

addFile(newFileName) ==
    LET clean == Trim(newFileName)
    IN  IF clean = <<>> THEN UNCHANGED bvars
        ELSE /\ Len(fileNodes) < MaxFiles
             /\ fileNodes' = Append(fileNodes, NewFileNode(clean))
             /\ UNCHANGED <<selectedFile, selectedScenarioId, validationMessage>>

\* every file node is created with a feature model, so the branch that builds
\* a missing one is never taken
onFileClick(i) ==
    /\ selectedFile' = i
    /\ selectedScenarioId' =
            IF fileNodes[i].featureModel.scenarios = <<>> THEN 0
            ELSE fileNodes[i].featureModel.scenarios[1].id
    /\ validationMessage' = ""
    /\ UNCHANGED fileNodes

\* the onChange of the scenario select, shown when a file is selected
selectScenario(id) ==
    /\ selectedFile # 0
    /\ selectedScenarioId' = id
    /\ UNCHANGED <<fileNodes, selectedFile, validationMessage>>

Rejected(message) ==
    /\ validationMessage' = message
    /\ UNCHANGED <<fileNodes, selectedFile, selectedScenarioId>>

\* scenarios and steps made so far, over all files
RECURSIVE CountSteps(_)
CountSteps(scenarioList) ==
    IF scenarioList = <<>> THEN 0
    ELSE Len(Head(scenarioList).steps) + CountSteps(Tail(scenarioList))

RECURSIVE Entries(_)
Entries(nodes) ==
    IF nodes = <<>> THEN 0
    ELSE Len(Head(nodes).featureModel.scenarios)
            + CountSteps(Head(nodes).featureModel.scenarios) + Entries(Tail(nodes))

addScenario(newScenarioName) ==
    LET name == Trim(newScenarioName)
    IN  IF selectedFile = 0 THEN UNCHANGED bvars
        ELSE IF name = <<>> THEN Rejected(MsgScenarioName)
        ELSE /\ Entries(fileNodes) < MaxEntries
             /\ \E id \in UidDraws :
                    /\ fileNodes' = Synced([SelectedModel EXCEPT !.scenarios =
                                        Append(@, [id |-> id, name |-> name, steps |-> <<>>])])
                    /\ selectedScenarioId' = id
             /\ validationMessage' = ""
             /\ UNCHANGED selectedFile

PushStep_first(keyword, source, pattern, customText, args) ==
    /\ Entries(fileNodes) < MaxEntries
    /\ \E id \in UidDraws :
            fileNodes' = Synced([SelectedModel EXCEPT
                !.scenarios[CurrentScenario].steps =
                    <<[id |-> id, keyword |-> keyword, source |-> source,
                       pattern |-> pattern, customText |-> customText,
                       args |-> args]>> \o @])
    /\ validationMessage' = ""
    /\ UNCHANGED <<selectedFile, selectedScenarioId>>

\* currentScenario.steps.push(step), then the resets and syncSelectedFile();
\* a field the source leaves undefined is the empty string here, both are falsy
PushStep(keyword, source, pattern, customText, args) ==
    /\ Entries(fileNodes) < MaxEntries
    /\ \E id \in UidDraws :
            fileNodes' = Synced([SelectedModel EXCEPT
                !.scenarios[CurrentScenario].steps =
                    Append(@, [id |-> id, keyword |-> keyword, source |-> source,
                               pattern |-> pattern, customText |-> customText,
                               args |-> args])])
    /\ validationMessage' = ""
    /\ UNCHANGED <<selectedFile, selectedScenarioId>>

DefaultArgs(pattern) ==
    [k \in 1..Len(extractPlaceholders(pattern)) |-> defaultArg(extractPlaceholders(pattern)[k].type)]

addStep(stepKeyword, stepSource, selectedPattern, customStepText) ==
    IF selectedFile = 0 \/ CurrentScenario = 0 THEN Rejected(MsgSelectScenario)
    ELSE IF stepKeyword \notin allowedKeywords(SelectedModel.scenarios[CurrentScenario].steps)
    THEN Rejected(MsgKeywordOrder)
    ELSE IF stepSource = "existing"
    THEN IF selectedPattern = <<>> THEN Rejected(MsgChoosePattern)
         ELSE PushStep(stepKeyword, "existing", selectedPattern, <<>>,
                       DefaultArgs(selectedPattern))
    ELSE IF Trim(customStepText) = <<>> THEN Rejected(MsgCustomText)
         ELSE PushStep(stepKeyword, "custom", <<>>, Trim(customStepText), <<>>)

\* the trash button of step `id` of scenario k of the selected file
removeStep(k, id) ==
    LET keep(step) == step.id # id
    IN  /\ fileNodes' = Synced([SelectedModel EXCEPT
                                    !.scenarios[k].steps = SelectSeq(@, keep)])
        /\ UNCHANGED <<selectedFile, selectedScenarioId, validationMessage>>

OtherThanBuilder == <<vvars, tvars, cvars, fvars, pvars, kvars, rvars, avars>>

NextBuilder ==
    \/ \E n \in BuilderFileNames : addFile(n) /\ UNCHANGED OtherThanBuilder
    \/ \E i \in 1..Len(fileNodes) : onFileClick(i) /\ UNCHANGED OtherThanBuilder
    \/ /\ selectedFile # 0
       /\ \E id \in {0} \cup {SelectedModel.scenarios[k].id : k \in 1..Len(SelectedModel.scenarios)} :
            selectScenario(id)
       /\ UNCHANGED OtherThanBuilder
    \/ \E n \in BuilderScenarioNames : addScenario(n) /\ UNCHANGED OtherThanBuilder
    \/ \E kw \in BuilderKeywords, form \in BuilderForms :
            addStep(kw, form.stepSource, form.selectedPattern, form.customStepText)
                /\ UNCHANGED OtherThanBuilder
    \/ /\ selectedFile # 0
       /\ \E k \in 1..Len(SelectedModel.scenarios) :
            \E j \in 1..Len(SelectedModel.scenarios[k].steps) :
                removeStep(k, SelectedModel.scenarios[k].steps[j].id)
       /\ UNCHANGED OtherThanBuilder

SpecBuilder == InitBuilder /\ [][NextBuilder]_vars

-----------------------------------------------------------------------------
(* SpecStepForm: the scenario and step forms of the builder on one feature *)
(* file.  The file has been created by addFile and is not yet selected;    *)
(* the handlers are those of SpecBuilder but addFile.                      *)

InitStepForm ==
    /\ \E n \in BuilderFileNames :
            /\ Trim(n) # <<>>
            /\ fileNodes = <<NewFileNode(Trim(n))>>
    /\ selectedFile = 0
    /\ selectedScenarioId = 0
    /\ validationMessage = ""
    /\ IdleValidate /\ IdleTree /\ IdleChain /\ IdleFlatten /\ IdlePure /\ IdleCatalog
    /\ IdleRegister /\ IdleAuth

NextStepForm ==
    \/ \E i \in 1..Len(fileNodes) : onFileClick(i) /\ UNCHANGED OtherThanBuilder
    \/ /\ selectedFile # 0
       /\ \E id \in {0} \cup {SelectedModel.scenarios[k].id : k \in 1..Len(SelectedModel.scenarios)} :
            selectScenario(id)
       /\ UNCHANGED OtherThanBuilder
    \/ \E n \in BuilderScenarioNames : addScenario(n) /\ UNCHANGED OtherThanBuilder
    \/ \E kw \in BuilderKeywords, form \in BuilderForms :
            addStep(kw, form.stepSource, form.selectedPattern, form.customStepText)
                /\ UNCHANGED OtherThanBuilder
    \/ /\ selectedFile # 0
       /\ \E k \in 1..Len(SelectedModel.scenarios) :
            \E j \in 1..Len(SelectedModel.scenarios[k].steps) :
                removeStep(k, SelectedModel.scenarios[k].steps[j].id)
       /\ UNCHANGED OtherThanBuilder

SpecStepForm == InitStepForm /\ [][NextStepForm]_vars

-----------------------------------------------------------------------------
(* SpecFlatten: flattenSteps on every response of at most MaxBuckets       *)
(* buckets                                                                 *)

MaxBuckets == 2

BucketNames == { <<"G","i","v","e","n">>, <<"1">>, <<"2">>, <<"0","1">> }
SampleEntries ==
    [ Ab |-> <<"A"," ","b">>, ab2 |-> <<"a"," "," ","b">>, AB |-> <<" ","A","\t","B"," ">>,
      blank |-> <<" ">>, c |-> <<"c">> ]
SampleLists ==
    { <<>>, <<SampleEntries.Ab>>, <<SampleEntries.ab2, SampleEntries.c>>,
      <<SampleEntries.AB, SampleEntries.blank>>, <<SampleEntries.c, SampleEntries.Ab>> }

\* the sample lists as bucket values: arrays of strings
SampleValues ==
    {ArrayOf([k \in 1..Len(list) |-> StringItem(list[k])]) : list \in SampleLists}

BucketLists ==
    UNION { { buckets \in [1..n -> [name : BucketNames, value : SampleValues]] :
                \A a, b \in 1..n : a # b => buckets[a].name # buckets[b].name }
            : n \in 0..MaxBuckets }

Responses == {NoSteps} \cup {WithSteps(buckets) : buckets \in BucketLists}

InitFlatten ==
    /\ fResponse \in Responses
    /\ fSteps = <<>>
    /\ fDone = FALSE
    /\ IdleValidate /\ IdleTree /\ IdleChain /\ IdleBuilder /\ IdlePure /\ IdleCatalog
    /\ IdleRegister /\ IdleAuth

\* the handlers of the catalog request: setSteps(flattenSteps(response.data)),
\* and setSteps([]) in the catch when the call throws
LoadSteps ==
    /\ ~fDone
    /\ fSteps' = IF flattenSteps(fResponse).threw THEN <<>>
                  ELSE flattenSteps(fResponse).value
    /\ fDone' = TRUE
    /\ UNCHANGED <<fResponse, vvars, tvars, cvars, bvars, pvars, kvars, rvars, avars>>

NextFlatten == LoadSteps

SpecFlatten == InitFlatten /\ [][NextFlatten]_vars

-----------------------------------------------------------------------------
(* SpecFuzzy: both fuzzyScore functions on every query of at most MaxQuery *)
(* characters and every candidate of at most MaxCandidate characters       *)

MaxQuery == 2
MaxCandidate == 3

QueryChars == {"a", "b", "C", " "}
CandidateChars == {"a", "B", "c"}

StringsOver(chars, n) == UNION {[1..k -> chars] : k \in 0..n}

OtherThanPure == <<vvars, tvars, cvars, bvars, fvars, kvars, rvars, avars>>
IdleOthers ==
    /\ IdleValidate /\ IdleTree /\ IdleChain /\ IdleBuilder /\ IdleFlatten /\ IdleCatalog
    /\ IdleRegister /\ IdleAuth

InitFuzzy ==
    /\ fnIn \in [query : StringsOver(QueryChars, MaxQuery),
                 value : StringsOver(CandidateChars, MaxCandidate)]
    /\ fnOut = <<>>
    /\ fnDone = FALSE
    /\ IdleOthers

RunFuzzy ==
    /\ ~fnDone
    /\ fnOut' = [monaco |-> fuzzyScore(fnIn.query, fnIn.value),
                 builder |-> builderFuzzyScore(fnIn.query, fnIn.value)]
    /\ fnDone' = TRUE
    /\ UNCHANGED <<fnIn, OtherThanPure>>

NextFuzzy == RunFuzzy

SpecFuzzy == InitFuzzy /\ [][NextFuzzy]_vars

-----------------------------------------------------------------------------
(* SpecSnippet: buildStepSnippet on every pattern of at most MaxPieces     *)
(* pieces, and on one pattern with more than nine placeholders             *)

MaxPieces == 3

PatternPieces ==
    { PlaceholderText("string"), PlaceholderText("int"), PlaceholderText("long"),
      PlaceholderText("double"), <<"x", " ">>, <<"{">>, <<"i", "n", "t", "}">> }

ManyPlaceholders == Concat([k \in 1..11 |-> PlaceholderText("int") \o <<" ">>])

SnippetPatterns ==
    {Concat(pieces) : pieces \in UNION {[1..k -> PatternPieces] : k \in 0..MaxPieces}}
        \cup {ManyPlaceholders}

SnippetKeywords == {S_Given, S_When, S_Then, S_And, S_But}

InitSnippet ==
    /\ fnIn \in [keyword : SnippetKeywords, pattern : SnippetPatterns]
    /\ fnOut = <<>>
    /\ fnDone = FALSE
    /\ IdleOthers

RunSnippet ==
    /\ ~fnDone
    /\ fnOut' = buildStepSnippet(fnIn.keyword, fnIn.pattern)
    /\ fnDone' = TRUE
    /\ UNCHANGED <<fnIn, OtherThanPure>>

NextSnippet == RunSnippet

SpecSnippet == InitSnippet /\ [][NextSnippet]_vars

-----------------------------------------------------------------------------
(* SpecStringify: both stringifyTree functions on a root node whose folder *)
(* holds at most MaxChildren nodes, files and folders of at most one file  *)

MaxChildren == 2

TreeContents ==
    { <<>>,
      <<"F","e","a","t","u","r","e",":"," ","X","\n">>,
      <<"F","e","a","t","u","r","e",":"," ","X">>,
      <<"a","\n","\n","b","\n">>,
      <<"\n">> }

FileNodes == [type : {"file"}, name : {<<"G">>}, children : {<<>>}, content : TreeContents]
FolderOf(children) == [type |-> "folder", name |-> <<"F">>, children |-> children, content |-> <<>>]
InnerNodes == FileNodes \cup {FolderOf(<<>>)} \cup {FolderOf(<<file>>) : file \in FileNodes}
RootNodes ==
    FileNodes \cup
    {FolderOf(children) : children \in UNION {[1..k -> InnerNodes] : k \in 0..MaxChildren}}

InitStringify ==
    /\ fnIn \in {<<root>> : root \in RootNodes}
    /\ fnOut = <<>>
    /\ fnDone = FALSE
    /\ IdleOthers

RunStringify ==
    /\ ~fnDone
    /\ fnOut' = [builder |-> stringifyTree(fnIn, 0), editor |-> editorStringifyTree(fnIn, 0)]
    /\ fnDone' = TRUE
    /\ UNCHANGED <<fnIn, OtherThanPure>>

NextStringify == RunStringify

SpecStringify == InitStringify /\ [][NextStringify]_vars

-----------------------------------------------------------------------------
(* SpecNormalize: normalizeFolderPath, once and twice, on every path of at *)
(* most MaxPath characters                                                 *)

MaxPath == 5

PathChars == {"a", "b", "/", " "}

InitNormalize ==
    /\ fnIn \in StringsOver(PathChars, MaxPath)
    /\ fnOut = <<>>
    /\ fnDone = FALSE
    /\ IdleOthers

RunNormalize ==
    /\ ~fnDone
    /\ fnOut' = [once |-> normalizeFolderPath(fnIn),
                 twice |-> normalizeFolderPath(normalizeFolderPath(fnIn))]
    /\ fnDone' = TRUE
    /\ UNCHANGED <<fnIn, OtherThanPure>>

NextNormalize == RunNormalize

SpecNormalize == InitNormalize /\ [][NextNormalize]_vars

-----------------------------------------------------------------------------
(* SpecShapes: both flattenSteps functions on response bodies of every     *)
(* shape: no data.steps, bucket values that are no arrays, items that are  *)
(* no strings                                                              *)

ShapeNames == { <<"a">>, <<"b">>, <<"1">> }
ShapeValues ==
    { ArrayOf(<<>>), ArrayOf(<<StringItem(<<"c">>)>>), ArrayOf(<<NotAString>>),
      ArrayOf(<<StringItem(<<"c">>), NotAString>>), NotAnArray }

ShapeBuckets ==
    UNION { { buckets \in [1..n -> [name : ShapeNames, value : ShapeValues]] :
                \A a, b \in 1..n : a # b => buckets[a].name # buckets[b].name }
            : n \in 0..MaxBuckets }

InitShapes ==
    /\ fnIn \in {NoSteps} \cup {WithSteps(buckets) : buckets \in ShapeBuckets}
    /\ fnOut = <<>>
    /\ fnDone = FALSE
    /\ IdleOthers

RunShapes ==
    /\ ~fnDone
    /\ fnOut' = [monaco |-> flattenSteps(fnIn), builder |-> builderFlattenSteps(fnIn)]
    /\ fnDone' = TRUE
    /\ UNCHANGED <<fnIn, OtherThanPure>>

NextShapes == RunShapes

SpecShapes == InitShapes /\ [][NextShapes]_vars

-----------------------------------------------------------------------------
(* SpecCatalog: the loading of the step catalog on the Monaco page         *)
(* A request is [app, status, body]: pending until the network settles it, *)
(* then fulfilled with a response body or rejected; its then or catch      *)
(* callback runs later and takes it off the list.  At most MaxRequests     *)
(* requests are unhandled at a time.                                       *)

MaxRequests == 2

S_AppA == <<"A">>
S_AppB == <<"B">>
AppIds == {<<>>, S_AppA, S_AppB}

BodyA == WithSteps(<<[name |-> <<"G">>, value |-> ArrayOf(<<StringItem(<<"a">>), StringItem(<<"b">>)>>)]>>)
BodyB == WithSteps(<<[name |-> <<"G">>, value |-> ArrayOf(<<StringItem(<<"c">>), StringItem(<<"d">>)>>)]>>)
BodyMalformed == WithSteps(<<[name |-> <<"G">>, value |-> ArrayOf(<<StringItem(<<"c">>), NotAString>>)]>>)

\* the bodies the backend may answer with for an app
BodiesOf(app) == IF app = S_AppA THEN {BodyA} ELSE {BodyB, BodyMalformed}

Pending(app) == [app |-> app, status |-> "pending", body |-> NoSteps]

\* the effect on [appId]: no request without an app
RequestsFor(app) == IF app = <<>> THEN <<>> ELSE <<Pending(app)>>

InitCatalog ==
    /\ kAppId \in AppIds
    /\ kSteps = <<>>
    /\ kStepsRef = <<>>
    /\ kRequests = RequestsFor(kAppId)
    /\ IdleValidate /\ IdleTree /\ IdleChain /\ IdleBuilder /\ IdleFlatten /\ IdlePure
    /\ IdleRegister /\ IdleAuth

\* the route changes to another app and the effect on [appId] runs
Navigate(app) ==
    /\ app # kAppId
    /\ Len(kRequests) + Len(RequestsFor(app)) <= MaxRequests
    /\ kAppId' = app
    /\ kRequests' = kRequests \o RequestsFor(app)
    /\ UNCHANGED <<kSteps, kStepsRef>>

\* the network settles request i
Settle(i, status, body) ==
    /\ kRequests[i].status = "pending"
    /\ kRequests' = [kRequests EXCEPT ![i] = [@ EXCEPT !.status = status, !.body = body]]
    /\ UNCHANGED <<kAppId, kSteps, kStepsRef>>

WithoutRequest(requests, i) == SubSeq(requests, 1, i - 1) \o SubSeq(requests, i + 1, Len(requests))

\* .catch(() => setSteps([]))
CatchSteps_keep(current) == current
CatchSteps(current) == <<>>

\* the callbacks of request i: then(setSteps(flattenSteps(response.data)))
\* and the catch, which also takes an exception thrown in the then callback
Handle(i) ==
    /\ kRequests[i].status # "pending"
    /\ kSteps' = IF kRequests[i].status = "rejected" THEN CatchSteps(kSteps)
                 ELSE IF flattenSteps(kRequests[i].body).threw THEN CatchSteps(kSteps)
                 ELSE flattenSteps(kRequests[i].body).value
    /\ kRequests' = WithoutRequest(kRequests, i)
    /\ UNCHANGED <<kAppId, kStepsRef>>

\* the effect on [steps]: stepsRef.current = steps
SyncRef ==
    /\ kStepsRef # kSteps
    /\ kStepsRef' = kSteps
    /\ UNCHANGED <<kAppId, kSteps, kRequests>>

OtherThanCatalog == <<vvars, tvars, cvars, bvars, fvars, pvars, rvars, avars>>

NextCatalog ==
    \/ \E app \in AppIds : Navigate(app) /\ UNCHANGED OtherThanCatalog
    \/ \E i \in 1..Len(kRequests) :
        \/ Settle(i, "rejected", NoSteps) /\ UNCHANGED OtherThanCatalog
        \/ \E body \in BodiesOf(kRequests[i].app) :
                Settle(i, "fulfilled", body) /\ UNCHANGED OtherThanCatalog
    \/ \E i \in 1..Len(kRequests) : Handle(i) /\ UNCHANGED OtherThanCatalog
    \/ SyncRef /\ UNCHANGED OtherThanCatalog

SpecCatalog == InitCatalog /\ [][NextCatalog]_vars

-----------------------------------------------------------------------------
(* SpecSuggest: provideCompletionItems on sample catalogs, some longer     *)
(* than the limit of the list, and sample line prefixes                    *)

Repeat(c, n) == [k \in 1..n |-> c]

\* the k-th entry of the large catalogs: for the query "ab" a substring
\* match at index k % 7 when k % 3 = 0, else a subsequence match
CatalogEntry(k) ==
    Repeat("x", k % 7) \o <<"a">> \o Repeat("Y", k % 3) \o <<"b", " ">> \o NumberText(k)

\* n entries, taken with a stride through the numbers below 61
LargeCatalog(n, stride) == [k \in 1..n |-> CatalogEntry((k * stride) % 61)]

SampleCatalogs ==
    { LargeCatalog(n, stride) : n \in {0, 3, 49, 50, 51, 60}, stride \in {1, 7} }
        \cup { << <<"a", "b">>, <<"B", "b">>, <<"a", "x", "b">>, <<"z">> >>,
               << <<"a", " ", "b">>, <<"a", "x", "b">>, Repeat("x", 102) \o <<"a", "b">> >>,
               << <<"a", " ", "{", "i", "n", "t", "}">>, <<"A", " ", "{", "i", "n", "t", "}">> >> }

SamplePrefixes ==
    { <<>>, <<" ", "G", "i">>, <<"G", "i", "v", "e", "n">>, <<"G", "i", "v", "e", "n", " ">>,
      <<"G", "i", "v", "e", "n", " ", "a", "b">>, <<" ", " ", "w", "h", "e", "n", " ", "A", "b", " ">>,
      <<"T", "h", "e", "n", " ", " ", "b">>, <<"A", "n", "d", " ", "a">>,
      <<"B", "u", "t", " ", "z", "z">>, <<"G", "i", "v", "e", "n", "a", "b">> }

InitSuggest ==
    /\ fnIn \in [steps : SampleCatalogs, linePrefix : SamplePrefixes]
    /\ fnOut = <<>>
    /\ fnDone = FALSE
    /\ IdleOthers

RunSuggest ==
    /\ ~fnDone
    /\ fnOut' = provideCompletionItems(fnIn.steps, fnIn.linePrefix)
    /\ fnDone' = TRUE
    /\ UNCHANGED <<fnIn, OtherThanPure>>

NextSuggest == RunSuggest

SpecSuggest == InitSuggest /\ [][NextSuggest]_vars

-----------------------------------------------------------------------------
(* SpecSort: sortTreeItems, once and twice, on every list of at most       *)
(* MaxSortItems items with pairwise distinct paths                         *)

MaxSortItems == 3

SortPaths ==
    { <<"b">>, <<"B">>, <<"a", "/", "c">>, <<"a", "/", "b">>, <<"K">>, <<KelvinSign>> }

SortItems ==
    {FolderItem(p, getItemName(p)) : p \in SortPaths} \cup {FileItem(p) : p \in SortPaths}

SortLists ==
    {list \in UNION {[1..n -> SortItems] : n \in 0..MaxSortItems} :
        \A i, j \in 1..Len(list) : i # j => list[i].path # list[j].path}

InitSort ==
    /\ fnIn \in SortLists
    /\ fnOut = <<>>
    /\ fnDone = FALSE
    /\ IdleOthers

RunSort ==
    /\ ~fnDone
    /\ fnOut' = [once |-> sortTreeItems(fnIn), twice |-> sortTreeItems(sortTreeItems(fnIn))]
    /\ fnDone' = TRUE
    /\ UNCHANGED <<fnIn, OtherThanPure>>

NextSort == RunSort

SpecSort == InitSort /\ [][NextSort]_vars

-----------------------------------------------------------------------------
(* SpecRegister: mounts of the Monaco page and of its editor in one process *)
(* page tells whether the component is mounted, editor counts the editors  *)
(* the mounted page has mounted (0: none yet), editorKey is the selected   *)
(* file, the key of the Editor element.                                    *)

MaxProviders == 8
MaxEditors == 5
MaxFileKeys == 3

OtherThanRegister == <<vvars, tvars, cvars, bvars, fvars, pvars, kvars, avars>>

\* the module is loaded: nothing is registered, no page is mounted
InitRegister ==
    /\ languageRegistered = FALSE /\ registrations = 0 /\ providers = {}
    /\ completionProviderDisposable = 0
    /\ page = 0 /\ editor = 0 /\ editorKey = 0 /\ initializedRef = FALSE
    /\ IdleValidate /\ IdleTree /\ IdleChain /\ IdleBuilder /\ IdleFlatten /\ IdlePure
    /\ IdleCatalog /\ IdleAuth

\* the route renders AppDetail: a new component with a new initializedRef and
\* no file selected (selectedFilePath is "", key 0)
MountPage ==
    /\ page = 0 /\ completionProviderDisposable < MaxProviders
    /\ page' = 1 /\ initializedRef' = FALSE /\ editorKey' = 0
    /\ UNCHANGED <<languageRegistered, registrations, providers,
                   completionProviderDisposable, editor>>

\* the Editor of the page has loaded Monaco and calls onMount
MountEditor ==
    /\ page = 1 /\ editor = 0
    /\ editor' = 1
    /\ onMount
    /\ UNCHANGED <<page, editorKey>>

\* the user selects another file: key={selectedFilePath} changes, a mounted
\* Editor is replaced by a new one, which calls onMount
SwitchFile(key) ==
    /\ page = 1 /\ editor < MaxEditors /\ key # editorKey
    /\ editorKey' = key
    /\ IF editor = 0
       THEN UNCHANGED <<languageRegistered, registrations, providers,
                        completionProviderDisposable, editor, initializedRef>>
       ELSE editor' = editor + 1 /\ onMount
    /\ UNCHANGED page

\* the route leaves the page: the component and its editor are unmounted, the
\* module variables stay
UnmountPage ==
    /\ page = 1
    /\ page' = 0 /\ editor' = 0 /\ editorKey' = 0
    /\ UNCHANGED <<languageRegistered, registrations, providers,
                   completionProviderDisposable, initializedRef>>

NextRegister ==
    \/ MountPage /\ UNCHANGED OtherThanRegister
    \/ MountEditor /\ UNCHANGED OtherThanRegister
    \/ \E key \in 1..MaxFileKeys : SwitchFile(key) /\ UNCHANGED OtherThanRegister
    \/ UnmountPage /\ UNCHANGED OtherThanRegister

SpecRegister == InitRegister /\ [][NextRegister]_vars

-----------------------------------------------------------------------------
(* SpecAuth: the AuthProvider, its token store, timer and interceptors     *)
(* A token is a number, 0 stands for null; the backend numbers the token   *)
(* pairs it issues and every access token carries an exp claim.  Each      *)
(* action is the part of a handler that runs between two awaits.  calls    *)
(* are the requests of the application that require authentication: idle,  *)
(* sent, refreshing (its 401 started the refresh), queued, failing (its    *)
(* refresh failed, logout awaited), done or rejected.  refreshes, logouts, *)
(* logins and profiles are the requests in flight to /auth/refresh,        *)
(* /auth/logout, /auth/login and /me; /me answers here with 200 or with an *)
(* error other than 401.  Changes that another tab makes to localStorage   *)
(* are left out.                                                           *)

MaxCalls == 2
MaxIssued == 3
MaxInFlight == 2

NoTokens == [access |-> 0, refresh |-> 0]

\* getExpMs(token): null (FALSE here) for null, else the exp claim is there
getExpMs(token) == token # 0

\* schedule(token): the pending timer is cleared, and one is set when the
\* token expires
schedule(token) == getExpMs(token)

\* tokenStore.setBoth: what localStorage holds afterwards
setBoth(access, refresh, persist) ==
    IF persist THEN [access |-> access, refresh |-> refresh] ELSE NoTokens

\* setTokens(access, refresh) with rememberRef.current = remember
setTokens(access, refresh, remember) ==
    /\ accessToken' = access
    /\ refreshRef' = refresh
    /\ inMem' = [access |-> access, refresh |-> refresh]
    /\ stored' = setBoth(access, refresh, remember)
    /\ timer' = schedule(access)

\* refreshRef.current ?? tokenStore.readPersisted().refresh
RefreshToken == IF refreshRef # 0 THEN refreshRef ELSE stored.refresh

\* api.post("/auth/refresh", { refresh_token: rt }) on behalf of `origin`
RefreshRequest(origin, call) == [origin |-> origin, rt |-> RefreshToken, call |-> call]

WithoutAt(list, k) == SubSeq(list, 1, k - 1) \o SubSeq(list, k + 1, Len(list))

\* processQueue(err): every queued request is rejected
RejectQueued(requests) ==
    [j \in DOMAIN requests |->
        IF j \in Range(queue) THEN [requests[j] EXCEPT !.state = "rejected"] ELSE requests[j]]

\* processQueue(null, newToken) and api(original): the queued requests and
\* the one that started the refresh are sent again
Replayed(requests, original) ==
    [j \in DOMAIN requests |->
        IF j \in Range(queue) \/ j = original
        THEN [requests[j] EXCEPT !.state = "sent", !.replays = @ + 1]
        ELSE requests[j]]

\* what localStorage may hold when the page is loaded: nothing, the tokens of
\* a remembered session, or an access token alone
PersistedAtLoad ==
    {NoTokens, [access |-> 1, refresh |-> 1], [access |-> 1, refresh |-> 0]}

InitAuth ==
    /\ accessToken = 0 /\ refreshRef = 0 /\ rememberRef = FALSE
    /\ inMem = NoTokens
    /\ stored \in PersistedAtLoad
    /\ timer = FALSE /\ user = 0 /\ loading = TRUE
    /\ isRefreshing = FALSE /\ queue = <<>>
    /\ calls = [i \in 1..MaxCalls |-> [state |-> "idle", retry |-> FALSE, replays |-> 0]]
    /\ refreshes = <<>> /\ logouts = <<>> /\ logins = <<>> /\ profiles = <<>>
    /\ issued = 1
    /\ booted = FALSE /\ loggedOut = FALSE
    /\ IdleValidate /\ IdleTree /\ IdleChain /\ IdleBuilder /\ IdleFlatten /\ IdlePure
    /\ IdleCatalog /\ IdleRegister

\* the boot effect up to its first await; `valid` tells whether a persisted
\* access token has no exp or one in the future
Boot(valid) ==
    /\ ~booted
    /\ booted' = TRUE
    /\ IF stored.refresh # 0
       THEN /\ rememberRef' = TRUE
            /\ refreshRef' = stored.refresh
            /\ refreshes' = Append(refreshes,
                    [origin |-> "boot", rt |-> stored.refresh, call |-> 0])
            /\ UNCHANGED <<accessToken, inMem, stored, timer, user, loading, profiles>>
       ELSE IF stored.access # 0 /\ valid
       THEN /\ rememberRef' = TRUE
            /\ setTokens(stored.access, 0, TRUE)
            /\ profiles' = Append(profiles, "boot")
            /\ UNCHANGED <<user, loading, refreshes>>
       ELSE /\ setTokens(0, 0, rememberRef)
            /\ user' = 0
            /\ loading' = FALSE
            /\ UNCHANGED <<rememberRef, refreshes, profiles>>
    /\ UNCHANGED <<isRefreshing, queue, calls, logouts, logins, issued, loggedOut>>

\* the timeout set by schedule fires: void refresh()
TimerFires ==
    /\ booted /\ timer
    /\ timer' = FALSE
    /\ IF RefreshToken = 0
       THEN UNCHANGED refreshes
       ELSE /\ Len(refreshes) < MaxInFlight
            /\ refreshes' = Append(refreshes, RefreshRequest("timer", 0))
    /\ UNCHANGED <<accessToken, refreshRef, rememberRef, inMem, stored, user, loading,
                   isRefreshing, queue, calls, logouts, logins, profiles, issued,
                   booted, loggedOut>>

\* the application sends request i
Send(i) ==
    /\ booted /\ calls[i].state = "idle"
    /\ calls' = [calls EXCEPT ![i].state = "sent"]
    /\ UNCHANGED <<accessToken, refreshRef, rememberRef, inMem, stored, timer, user,
                   loading, isRefreshing, queue, refreshes, logouts, logins, profiles,
                   issued, booted, loggedOut>>

\* request i is answered with 200, or with an error other than 401
Answered(i, ok) ==
    /\ calls[i].state = "sent"
    /\ calls' = [calls EXCEPT ![i].state = IF ok THEN "done" ELSE "rejected"]
    /\ UNCHANGED <<accessToken, refreshRef, rememberRef, inMem, stored, timer, user,
                   loading, isRefreshing, queue, refreshes, logouts, logins, profiles,
                   issued, booted, loggedOut>>

\* request i is answered with 401: the response interceptor up to its await
Unauthorized(i) ==
    /\ calls[i].state = "sent"
    /\ IF calls[i].retry
       THEN /\ calls' = [calls EXCEPT ![i].state = "rejected"]
            /\ UNCHANGED <<isRefreshing, queue, refreshes, logouts>>
       ELSE IF isRefreshing
       THEN /\ calls' = [calls EXCEPT ![i].state = "queued", ![i].retry = TRUE]
            /\ queue' = Append(queue, i)
            /\ UNCHANGED <<isRefreshing, refreshes, logouts>>
       ELSE IF RefreshToken = 0
       THEN \* refresh() throws: processQueue(e), then logout() is awaited
            /\ isRefreshing' = TRUE
            /\ calls' = [RejectQueued(calls) EXCEPT ![i].state = "failing", ![i].retry = TRUE]
            /\ queue' = <<>>
            /\ Len(logouts) < MaxInFlight
            /\ logouts' = Append(logouts, [origin |-> "interceptor", call |-> i])
            /\ UNCHANGED refreshes
       ELSE /\ isRefreshing' = TRUE
            /\ calls' = [calls EXCEPT ![i].state = "refreshing", ![i].retry = TRUE]
            /\ Len(refreshes) < MaxInFlight
            /\ refreshes' = Append(refreshes, RefreshRequest("interceptor", i))
            /\ UNCHANGED <<queue, logouts>>
    /\ UNCHANGED <<accessToken, refreshRef, rememberRef, inMem, stored, timer, user,
                   loading, logins, profiles, issued, booted, loggedOut>>

\* /auth/refresh answers request k with a new pair of tokens: the rest of
\* refresh(), then the rest of its caller up to the next await
RefreshFulfilled(k) ==
    LET r == refreshes[k]
        n == issued + 1
    IN  /\ issued < MaxIssued
        /\ issued' = n
        /\ refreshes' = WithoutAt(refreshes, k)
        /\ setTokens(n, n, rememberRef)
        /\ IF r.origin = "boot"
           THEN /\ profiles' = Append(profiles, "boot")
                /\ UNCHANGED <<isRefreshing, queue, calls>>
           ELSE IF r.origin = "timer"
           THEN UNCHANGED <<profiles, isRefreshing, queue, calls>>
           ELSE /\ calls' = Replayed(calls, r.call)
                /\ queue' = <<>>
                /\ isRefreshing' = FALSE
                /\ UNCHANGED profiles
        /\ UNCHANGED <<rememberRef, user, loading, logouts, logins, booted, loggedOut>>

\* /auth/refresh refuses request k
RefreshRejected(k) ==
    LET r == refreshes[k]
    IN  /\ refreshes' = WithoutAt(refreshes, k)
        /\ IF r.origin = "boot"
           THEN /\ setTokens(0, 0, rememberRef)
                /\ user' = 0
                /\ loading' = FALSE
                /\ UNCHANGED <<calls, queue, logouts>>
           ELSE IF r.origin = "timer"
           THEN UNCHANGED <<accessToken, refreshRef, inMem, stored, timer, user, loading,
                            calls, queue, logouts>>
           ELSE /\ calls' = [RejectQueued(calls) EXCEPT ![r.call].state = "failing"]
                /\ queue' = <<>>
                /\ logouts' = Append(logouts, [origin |-> "interceptor", call |-> r.call])
                /\ UNCHANGED <<accessToken, refreshRef, inMem, stored, timer, user, loading>>
        /\ UNCHANGED <<rememberRef, isRefreshing, logins, profiles, issued, booted, loggedOut>>

\* the user signs in; remember is the "Remember me" box
LoginStart(remember) ==
    /\ booted /\ accessToken = 0 /\ logins = <<>> /\ issued < MaxIssued
    /\ logins' = <<remember>>
    /\ loggedOut' = FALSE
    /\ UNCHANGED <<accessToken, refreshRef, rememberRef, inMem, stored, timer, user,
                   loading, isRefreshing, queue, calls, refreshes, logouts, profiles,
                   issued, booted>>

\* /auth/login answers with a pair of tokens: login() up to getProfile()
LoginFulfilled ==
    LET n == issued + 1
    IN  /\ logins # <<>> /\ issued < MaxIssued
        /\ issued' = n
        /\ rememberRef' = logins[1]
        /\ setTokens(n, n, logins[1])
        /\ profiles' = Append(profiles, "login")
        /\ logins' = <<>>
        /\ UNCHANGED <<user, loading, isRefreshing, queue, calls, refreshes, logouts,
                       booted, loggedOut>>

\* /auth/login refuses: login() throws to its caller
LoginRejected ==
    /\ logins # <<>>
    /\ logins' = <<>>
    /\ UNCHANGED <<accessToken, refreshRef, rememberRef, inMem, stored, timer, user,
                   loading, isRefreshing, queue, calls, refreshes, logouts, profiles,
                   issued, booted, loggedOut>>

\* /me answers request k: setUser, and after the boot setLoading(false)
ProfileSettled(k, ok) ==
    /\ k \in 1..Len(profiles)
    /\ profiles' = WithoutAt(profiles, k)
    /\ user' = IF ok THEN 1 ELSE 0
    /\ loading' = IF profiles[k] = "boot" THEN FALSE ELSE loading
    /\ UNCHANGED <<accessToken, refreshRef, rememberRef, inMem, stored, timer,
                   isRefreshing, queue, calls, refreshes, logouts, logins, issued,
                   booted, loggedOut>>

\* the user signs out: logout() up to its await
LogoutStart ==
    /\ booted /\ accessToken # 0 /\ logouts = <<>>
    /\ logouts' = <<[origin |-> "user", call |-> 0]>>
    /\ UNCHANGED <<accessToken, refreshRef, rememberRef, inMem, stored, timer, user,
                   loading, isRefreshing, queue, calls, refreshes, logins, profiles,
                   issued, booted, loggedOut>>

\* /auth/logout has answered request k, with whatever result: the rest of
\* logout(), and for the interceptor its rejection and its finally.
\* loggedOut tells that a logout has completed and no login() was called
\* since or is in flight.
LogoutSettled(k) ==
    LET l == logouts[k]
    IN  /\ logouts' = WithoutAt(logouts, k)
        /\ rememberRef' = FALSE
        /\ setTokens(0, 0, FALSE)
        /\ user' = 0
        /\ loggedOut' = (logins = <<>>)
        /\ IF l.origin = "interceptor"
           THEN /\ calls' = [calls EXCEPT ![l.call].state = "rejected"]
                /\ isRefreshing' = FALSE
           ELSE UNCHANGED <<calls, isRefreshing>>
        /\ UNCHANGED <<loading, queue, refreshes, logins, profiles, issued, booted>>

OtherThanAuth == <<vvars, tvars, cvars, bvars, fvars, pvars, kvars, rvars>>

NextAuth ==
    \/ \E valid \in BOOLEAN : Boot(valid) /\ UNCHANGED OtherThanAuth
    \/ TimerFires /\ UNCHANGED OtherThanAuth
    \/ \E i \in 1..MaxCalls : Send(i) /\ UNCHANGED OtherThanAuth
    \/ \E i \in 1..MaxCalls, ok \in BOOLEAN : Answered(i, ok) /\ UNCHANGED OtherThanAuth
    \/ \E i \in 1..MaxCalls : Unauthorized(i) /\ UNCHANGED OtherThanAuth
    \/ \E k \in 1..Len(refreshes) : RefreshFulfilled(k) /\ UNCHANGED OtherThanAuth
    \/ \E k \in 1..Len(refreshes) : RefreshRejected(k) /\ UNCHANGED OtherThanAuth
    \/ \E remember \in BOOLEAN : LoginStart(remember) /\ UNCHANGED OtherThanAuth
    \/ LoginFulfilled /\ UNCHANGED OtherThanAuth
    \/ LoginRejected /\ UNCHANGED OtherThanAuth
    \/ \E k \in 1..Len(profiles), ok \in BOOLEAN : ProfileSettled(k, ok) /\ UNCHANGED OtherThanAuth
    \/ LogoutStart /\ UNCHANGED OtherThanAuth
    \/ \E k \in 1..Len(logouts) : LogoutSettled(k) /\ UNCHANGED OtherThanAuth

SpecAuth == InitAuth /\ [][NextAuth]_vars

-----------------------------------------------------------------------------
(* Properties of validateModel                                             *)

\* what line i of the validated document is, by the patterns of the validator
KeywordAt(i) ==
    LET line == Trim(vLines[i])
    IN  IF IsFeatureLine(line) \/ IsScenarioLine(line) THEN <<>> ELSE StepMatch(line)
ScenarioAt(i) == ~IsFeatureLine(Trim(vLines[i])) /\ IsScenarioLine(Trim(vLines[i]))
FeatureAt(i) == IsFeatureLine(Trim(vLines[i]))
StepAt(i) == KeywordAt(i) # <<>>

\* the Scenario line that opens the scenario line i lies in, 0 when none is open
ScenarioStart(i) ==
    LET before == {j \in 1..(i - 1) : ScenarioAt(j)}
    IN  IF before = {} THEN 0 ELSE CHOOSE j \in before : \A k \in before : k <= j

\* the next Scenario line after line k, Len + 1 at the end of the document
ScenarioEnd(k) ==
    LET after == {j \in (k + 1)..Len(vLines) : ScenarioAt(j)}
    IN  IF after = {} THEN Len(vLines) + 1 ELSE CHOOSE j \in after : \A m \in after : j <= m

MarkersWith(message) == {m \in 1..Len(vMarkers) : vMarkers[m].message = message}
HasMarker(i, message) == \E m \in MarkersWith(message) : vMarkers[m].startLineNumber = i

\* every step keyword of the document is written Given, When, Then, And or But
ExactKeywords == \A i \in 1..Len(vLines) : KeywordAt(i) \in {<<>>} \cup Range(StepKeywords)

SeenInScenario(i, keyword) == \E j \in (ScenarioStart(i) + 1)..(i - 1) : KeywordAt(j) = keyword

EmptyScenarios ==
    {k \in 1..Len(vLines) :
        ScenarioAt(k) /\ \A j \in (k + 1)..(ScenarioEnd(k) - 1) : ~StepAt(j)}

\* the line before the next Scenario line, the last line for the last scenario
EmptyAnchorOf(k) == IF ScenarioEnd(k) <= Len(vLines) THEN ScenarioEnd(k) - 1 ELSE Len(vLines)

\* C2: the "cannot be empty" diagnostics are as many as the scenarios without a
\* step line; each empty scenario has one, carrying its name (or Unnamed
\* Scenario), on the line before the next Scenario line or on the last line of
\* the document; a scenario with a step line has none.
C2_EmptyScenarioRule ==
    vDone =>
        /\ Cardinality(MarkersWith(MsgEmpty)) = Cardinality(EmptyScenarios)
        /\ \A k \in EmptyScenarios :
            \E m \in MarkersWith(MsgEmpty) :
                /\ vMarkers[m].startLineNumber = EmptyAnchorOf(k)
                /\ vMarkers[m].name = ScenarioNameOf(Trim(vLines[k]))

\* a validated document with an empty scenario followed by a scenario with a step
C2_Witness ==
    /\ vDone
    /\ \E k \in EmptyScenarios :
        /\ ScenarioEnd(k) <= Len(vLines)
        /\ ScenarioEnd(k) \notin EmptyScenarios
        /\ HasMarker(ScenarioEnd(k) - 1, MsgEmpty)

FeatureLines == {i \in 1..Len(vLines) : FeatureAt(i)}

\* a marker without its column, which depends on the text of the marked line
MarkerCore(m) == <<m.startLineNumber, m.message, m.name>>
OtherMarkers(markers) ==
    LET keep(m) == m.message # MsgOneFeature
    IN  [k \in DOMAIN SelectSeq(markers, keep) |-> MarkerCore(SelectSeq(markers, keep)[k])]

\* C3: k >= 1 Feature lines give exactly k - 1 diagnostics "Only one Feature
\* block is allowed.", one on each Feature line after the first; and a Feature
\* line is inert for the scenario state: blanking it changes no other diagnostic.
C3_FeatureRule ==
    vDone =>
        /\ \A i \in 1..Len(vLines) :
            HasMarker(i, MsgOneFeature) <=>
                (i \in FeatureLines /\ \E j \in FeatureLines : j < i)
        /\ FeatureLines # {} =>
            Cardinality(MarkersWith(MsgOneFeature)) = Cardinality(FeatureLines) - 1
        /\ \A i \in FeatureLines :
            OtherMarkers(ValidateModel([vLines EXCEPT ![i] = <<>>])) = OtherMarkers(vMarkers)

\* a validated document with two Feature lines and a scenario open across one
C3_Witness ==
    /\ vDone
    /\ Cardinality(FeatureLines) = 2
    /\ Cardinality(MarkersWith(MsgOneFeature)) = 1
    /\ \E i \in FeatureLines : ScenarioStart(i) > 0

\* the step lines before the first Scenario line
OutsideSteps == {i \in 1..Len(vLines) : StepAt(i) /\ ScenarioStart(i) = 0}

\* C21: "Step cannot appear outside of a Scenario." is on exactly the step
\* lines before the first Scenario line, once each; such a line gets no
\* ordering diagnostic, sets no seen-Given or seen-When flag (a When or Then
\* line of a scenario with no Given or When line of its own is flagged) and
\* is no step of a scenario (a scenario without step lines of its own is
\* reported as empty); no step line after a Scenario line is reported so.
C21_OutsideScenario ==
    vDone =>
        /\ \A i \in 1..Len(vLines) : HasMarker(i, MsgOutside) <=> i \in OutsideSteps
        /\ Cardinality(MarkersWith(MsgOutside)) = Cardinality(OutsideSteps)
        /\ \A i \in OutsideSteps :
            ~HasMarker(i, MsgWhenNoGiven) /\ ~HasMarker(i, MsgThenNoWhen)
        /\ \A i \in 1..Len(vLines) :
            /\ (KeywordAt(i) = S_When /\ ScenarioStart(i) > 0 /\ ~SeenInScenario(i, S_Given))
                    => HasMarker(i, MsgWhenNoGiven)
            /\ (KeywordAt(i) = S_Then /\ ScenarioStart(i) > 0 /\ ~SeenInScenario(i, S_When))
                    => HasMarker(i, MsgThenNoWhen)
        /\ \A k \in EmptyScenarios : HasMarker(EmptyAnchorOf(k), MsgEmpty)

\* a validated document that starts with a Given line outside a scenario,
\* followed by a scenario that is empty or opens with a flagged When line
C21_Witness ==
    /\ vDone
    /\ Len(vLines) = 3
    /\ KeywordAt(1) = S_Given /\ HasMarker(1, MsgOutside)
    /\ ScenarioAt(2)
    /\ \/ HasMarker(3, MsgEmpty) /\ ~StepAt(3)
       \/ KeywordAt(3) = S_When /\ HasMarker(3, MsgWhenNoGiven)

\* C29: every diagnostic of validateModel is on a line of the document, so
\* the line lookup of push never fails, and the diagnostics are in
\* non-decreasing line order.
C29_MarkerLines ==
    vDone =>
        /\ ~ValidateRun(vLines).threw
        /\ \A m \in 1..Len(vMarkers) : vMarkers[m].startLineNumber \in 1..Len(vLines)
        /\ \A m, n \in 1..Len(vMarkers) :
            m < n => vMarkers[m].startLineNumber <= vMarkers[n].startLineNumber

\* a validated document with an empty scenario reported on the line before
\* the next Scenario line and a last scenario reported on the last line
C29_Witness ==
    /\ vDone
    /\ Len(vMarkers) >= 2
    /\ vMarkers[Len(vMarkers)].startLineNumber = Len(vLines)
    /\ vMarkers[Len(vMarkers)].message = MsgEmpty
    /\ vMarkers[1].message = MsgEmpty
    /\ vMarkers[1].startLineNumber < Len(vLines)

-----------------------------------------------------------------------------
(* Properties of the tree                                                  *)

\* the part of a path before its last slash, <<>> when it has no slash
ParentPrefix(path) == IF LastSlash(path) = 0 THEN <<>> ELSE SubSeq(path, 1, LastSlash(path) - 1)

IsFolderAt(list, path) == \E j \in 1..Len(list) : list[j].type = "folder" /\ list[j].path = path

\* C4: no two items of the tree have the same path.
C4_UniquePaths ==
    \A i, j \in 1..Len(items) : i # j => items[i].path # items[j].path

\* C5: every item whose path has a non-empty parent prefix has a folder item
\* with exactly that parent path.
C5_FolderChain ==
    \A i \in 1..Len(items) :
        ParentPrefix(items[i].path) # <<>> => IsFolderAt(items, ParentPrefix(items[i].path))

\* a folder two levels below an existing folder was just created, with its chain
C5_Witness ==
    /\ lastOp = Op("createFolder", "done")
    /\ \E i \in 1..Len(items) :
        /\ items[i].path = selectedFolderPath
        /\ getItemDepth(items[i].path) >= 2
        /\ IsFolderAt(items, ParentPrefix(items[i].path))

\* the segment-wise prefixes of a normalized path
PrefixesOf(normalized) ==
    IF normalized = <<>> THEN {}
    ELSE {Join(SubSeq(Split(normalized), 1, k)) : k \in 1..Len(Split(normalized))}

FoldersAt(list, path) == {j \in 1..Len(list) : list[j].type = "folder" /\ list[j].path = path}

\* C6: for a list with at most one folder per path, the result of
\* ensureFolderChain has exactly one folder for every segment-wise prefix of the
\* normalized path, keeps the input as an unchanged prefix, appends only the
\* missing folders, root to leaf, each named by its last segment, and is the
\* input itself when the normalized path is empty.
C6_EnsureFolderChain ==
    cDone =>
        LET normalized == normalizeFolderPath(cPath)
            added == (Len(cItems) + 1)..Len(cOut)
        IN  /\ \A p \in PrefixesOf(normalized) : Cardinality(FoldersAt(cOut, p)) = 1
            /\ Len(cOut) >= Len(cItems)
            /\ SubSeq(cOut, 1, Len(cItems)) = cItems
            /\ \A k \in added :
                /\ cOut[k].type = "folder"
                /\ cOut[k].path \in PrefixesOf(normalized)
                /\ ~IsFolderAt(cItems, cOut[k].path)
                /\ cOut[k].name = Split(cOut[k].path)[Len(Split(cOut[k].path))]
                /\ cOut[k].id = toItemId("folder", cOut[k].path)
            /\ \A k, m \in added : k < m => Len(cOut[k].path) < Len(cOut[m].path)
            /\ normalized = <<>> => cOut = cItems

\* a chain of two new folders appended below a folder that existed, past a
\* file whose path is one of the prefixes
C6_Witness ==
    /\ cDone
    /\ Len(cOut) = Len(cItems) + 2
    /\ \E p \in PrefixesOf(normalizeFolderPath(cPath)) : IsFolderAt(cItems, p)
    /\ \E j \in 1..Len(cItems) :
        cItems[j].type = "file" /\ cItems[j].path \in PrefixesOf(normalizeFolderPath(cPath))

\* C7: a createFolder or createFeatureFile whose normalized full path is the
\* path of an item of the tree changes neither the items, nor any stored text,
\* nor the selected file, nor the selected folder.
C7_CollisionNoOp ==
    [][ ( \/ /\ lastOp'.op = "createFolder"
             /\ \E n \in FolderNameInputs :
                    PathTaken(items, FolderFullPath(n)) /\ createFolder(n)
          \/ /\ lastOp'.op = "createFeatureFile"
             /\ \E n \in FileNameInputs :
                    PathTaken(items, FileFullPath(n)) /\ createFeatureFile(n) )
        => UNCHANGED <<items, fileContents, selectedFilePath, selectedFolderPath>> ]_vars

\* createFeatureFile was just refused for a taken path while the only file of
\* the tree holds an edited text
C7_Witness ==
    /\ lastOp = Op("createFeatureFile", "taken")
    /\ Len(items) = 2
    /\ fileContents[S_starterPath] # DEFAULT_FEATURE_CONTENT

\* C9: the markers attached to the open text model are those validateModel
\* computes from its current text, after every content change and every switch
\* of the selected file.
C9_MarkersFollowText ==
    /\ edMarkers = ValidateModel(edText)
    /\ edText = ContentOf(fileContents, selectedFilePath)

\* a file with markers was just opened by a click, while another file's text
\* has other markers
C9_Witness ==
    /\ lastOp = Op("clickFile", "done")
    /\ edMarkers # <<>>
    /\ \E p \in DOMAIN fileContents :
        p # selectedFilePath /\ ValidateModel(fileContents[p]) # edMarkers

\* the paths of the files of the tree
FilePaths == {items[i].path : i \in {k \in 1..Len(items) : items[k].type = "file"}}

\* the stored texts other than that of `path` are what they were
OthersKept(path) ==
    \A p \in DOMAIN fileContents \ {path} :
        p \in DOMAIN fileContents' /\ fileContents'[p] = fileContents[p]

\* what a content change does
EditStep ==
    lastOp'.op = "editorChange" =>
        /\ UNCHANGED <<items, selectedFolderPath, selectedFilePath>>
        /\ DOMAIN fileContents' = DOMAIN fileContents \cup {selectedFilePath}
        /\ fileContents'[selectedFilePath] = edText'
        /\ OthersKept(selectedFilePath)

\* what every other operation does to the stored texts
OtherStep ==
    lastOp'.op # "editorChange" =>
        /\ OthersKept(<<>>)
        /\ \A p \in DOMAIN fileContents' \ DOMAIN fileContents :
            /\ lastOp' = Op("createFeatureFile", "done")
            /\ p = selectedFilePath' /\ p \notin FilePaths
            /\ fileContents'[p] = DEFAULT_FEATURE_CONTENT

\* C22: a content change while file P is selected stores the editor's new
\* full text as the text of P and changes neither the items, nor the selected
\* folder, nor the stored text of another file; a file gets its text with
\* the default content when it is created, and no other operation changes a
\* stored text: the text of a file is that of the last edit made while it
\* was selected, the default content if there was none.
C22_EditFrame ==
    /\ [](\A p \in FilePaths : p \in DOMAIN fileContents)
    /\ [][EditStep /\ OtherStep]_vars

\* the selected file was just edited while the other file, edited before,
\* holds another text
C22_Witness ==
    /\ lastOp = Op("editorChange", "done")
    /\ fileContents[selectedFilePath] = edText
    /\ \E p \in DOMAIN fileContents :
        /\ p # selectedFilePath
        /\ fileContents[p] \in SampleTexts /\ fileContents[p] # edText

-----------------------------------------------------------------------------
(* Properties of the scenario builder                                      *)

\* the stage of a keyword in the order Given < When < Then
Stage(keyword) ==
    CASE keyword = S_Given -> 1
      [] keyword = S_When -> 2
      [] keyword = S_Then -> 3

KeywordsOf(scenario) == [k \in 1..Len(scenario.steps) |-> scenario.steps[k].keyword]

AllScenarios ==
    UNION {Range(fileNodes[i].featureModel.scenarios) : i \in 1..Len(fileNodes)}

\* C8: after any sequence of addScenario, addStep and step removals from a
\* file with no scenarios, the step keywords of every scenario, read in list
\* order, never go back in the order Given < When < Then.
C8_KeywordOrder ==
    \A scenario \in AllScenarios :
        \A a, b \in 1..Len(scenario.steps) :
            a < b => Stage(scenario.steps[a].keyword) <= Stage(scenario.steps[b].keyword)

\* the selected scenario received a When and a Then step, lost the When to a
\* removal, and then refused a step for its keyword
C8_Witness ==
    /\ selectedFile # 0 /\ CurrentScenario # 0
    /\ KeywordsOf(SelectedModel.scenarios[CurrentScenario]) = <<S_Then>>
    /\ validationMessage = MsgKeywordOrder

\* the cases in which Add Step is refused: no scenario is selected, the
\* keyword is not allowed for the selected scenario, the source is "existing"
\* with no pattern selected or "custom" with a blank text
NoScenarioSelected == selectedFile = 0 \/ CurrentScenario = 0

KeywordRefused(kw) ==
    kw \notin allowedKeywords(SelectedModel.scenarios[CurrentScenario].steps)

FormRefused(form) ==
    \/ form.stepSource = "existing" /\ form.selectedPattern = <<>>
    \/ form.stepSource = "custom" /\ Trim(form.customStepText) = <<>>

Refused(kw, form) == NoScenarioSelected \/ KeywordRefused(kw) \/ FormRefused(form)

\* the step leaves every file but the selected one, and every scenario of the
\* selected file but the selected one, as they were
OnlySelectedScenarioChanged ==
    /\ Len(fileNodes') = Len(fileNodes)
    /\ \A i \in 1..Len(fileNodes) : i # selectedFile => fileNodes'[i] = fileNodes[i]
    /\ fileNodes'[selectedFile].name = fileNodes[selectedFile].name
    /\ fileNodes'[selectedFile].featureModel.featureName = SelectedModel.featureName
    /\ Len(fileNodes'[selectedFile].featureModel.scenarios) = Len(SelectedModel.scenarios)
    /\ \A k \in 1..Len(SelectedModel.scenarios) :
            /\ fileNodes'[selectedFile].featureModel.scenarios[k].id = SelectedModel.scenarios[k].id
            /\ fileNodes'[selectedFile].featureModel.scenarios[k].name = SelectedModel.scenarios[k].name
            /\ k # CurrentScenario =>
                    fileNodes'[selectedFile].featureModel.scenarios[k] = SelectedModel.scenarios[k]

\* the steps of the selected scenario are the steps before with one step of
\* keyword kw after them
OneStepAppended(kw) ==
    LET before == SelectedModel.scenarios[CurrentScenario].steps
        after == fileNodes'[selectedFile].featureModel.scenarios[CurrentScenario].steps
    IN  /\ Len(after) = Len(before) + 1
        /\ SubSeq(after, 1, Len(before)) = before
        /\ after[Len(after)].keyword = kw

\* what a refused addStep does: the models and contents stay, a message that
\* is not empty is set
RefusedEffect ==
    /\ validationMessage' # ""
    /\ fileNodes' = fileNodes

\* what any other addStep does
AppendedEffect(kw) ==
    /\ validationMessage' = ""
    /\ OnlySelectedScenarioChanged
    /\ OneStepAppended(kw)

\* the step is one that addStep(kw, form) can take
TakenByAddStep(kw, form) ==
    addStep(kw, form.stepSource, form.selectedPattern, form.customStepText)

\* what a push by addStep(kw, form) shows without building the content: the
\* message is cleared, no file is added, and the last step of the selected
\* scenario has this keyword and source
PushShows(kw, form) ==
    /\ validationMessage' = ""
    /\ Len(fileNodes') = Len(fileNodes)
    /\ LET after == fileNodes'[selectedFile].featureModel.scenarios[CurrentScenario].steps
       IN  /\ after # <<>>
           /\ after[Len(after)].keyword = kw
           /\ after[Len(after)].source = form.stepSource

\* PushShows passes every push, so testing it first leaves no step of addStep
\* out
PushShowsEveryPush ==
    [][\A kw \in BuilderKeywords, form \in BuilderForms :
            (~Refused(kw, form) /\ TakenByAddStep(kw, form)) => PushShows(kw, form)]_vars

\* every step that addStep can take, for any keyword and form, has the effect
\* of its case.  The effect is tested before the handler is compared, and a
\* push is compared only when PushShows holds; addStep leaves the selection
\* alone, so other steps are passed at once.
AddStepEffect ==
    (selectedFile' = selectedFile /\ selectedScenarioId' = selectedScenarioId) =>
        IF NoScenarioSelected
        THEN RefusedEffect
                \/ \A kw \in BuilderKeywords, form \in BuilderForms : ~TakenByAddStep(kw, form)
        ELSE \A kw \in BuilderKeywords :
                IF KeywordRefused(kw)
                THEN RefusedEffect \/ \A form \in BuilderForms : ~TakenByAddStep(kw, form)
                ELSE \A form \in BuilderForms :
                        IF FormRefused(form)
                        THEN RefusedEffect \/ ~TakenByAddStep(kw, form)
                        ELSE AppendedEffect(kw)
                                \/ ~(PushShows(kw, form) /\ TakenByAddStep(kw, form))

\* C24: an addStep that is refused (no scenario selected, keyword not
\* allowed, source "existing" without a pattern, source "custom" with a blank
\* text) leaves every model and every generated content as it was and sets a
\* message that is not empty; any other addStep appends exactly one step at
\* the end of the selected scenario, changes nothing else of the models, and
\* clears the message.
C24_AddStep == [][AddStepEffect]_vars

\* a step was added to the selected scenario, and the next addStep was refused
\* for its missing pattern
C24_Witness ==
    /\ selectedFile # 0 /\ CurrentScenario # 0
    /\ Len(SelectedModel.scenarios[CurrentScenario].steps) >= 1
    /\ validationMessage = MsgChoosePattern

\* C30: in every reachable state the content of every file that has a
\* feature model is buildFeatureContent of that model.
C30_ContentInSync ==
    \A i \in 1..Len(fileNodes) :
        fileNodes[i].content = buildFeatureContent(fileNodes[i].featureModel)

\* the same for the files a scenario was added to or a step removed from:
\* syncSelectedFile has run on each of them
ContentInSyncOnceEdited ==
    \A i \in 1..Len(fileNodes) :
        fileNodes[i].featureModel.scenarios # <<>> =>
            fileNodes[i].content = buildFeatureContent(fileNodes[i].featureModel)

-----------------------------------------------------------------------------
(* Properties of the step catalog                                          *)

\* the entries of all buckets, buckets in the order the payload gives them
RECURSIVE EntriesInGivenOrder(_)
EntriesInGivenOrder(buckets) ==
    IF buckets = <<>> THEN <<>>
    ELSE Head(buckets).value.list \o EntriesInGivenOrder(Tail(buckets))

\* the normalized forms that are not empty and whose lowercase form has not
\* occurred earlier, in the order of `entries`
FirstOccurrences(entries) ==
    LET forms == [k \in 1..Len(entries) |-> normalizeStepPattern(entries[k].text)]
        first == {k \in 1..Len(forms) :
                    /\ forms[k] # <<>>
                    /\ \A j \in 1..(k - 1) : ToLowerCase(forms[j]) # ToLowerCase(forms[k])}
        RECURSIVE Pick(_)
        Pick(k) == IF k > Len(forms) THEN <<>>
                   ELSE (IF k \in first THEN <<forms[k]>> ELSE <<>>) \o Pick(k + 1)
    IN  Pick(1)

\* C10: flattenSteps lists, for the buckets in the order given and the entries
\* of each bucket in the order given, the whitespace-normalized form of each
\* entry that is not empty and whose lowercase form has not occurred earlier.
C10_FlattenDedup ==
    (fDone /\ fResponse.hasSteps)
        => fSteps = FirstOccurrences(EntriesInGivenOrder(fResponse.steps))

-----------------------------------------------------------------------------
(* Properties of fuzzyScore                                                *)

\* q occurs in c at position i, counted from 0
OccursAt(q, c, i) == i + Len(q) <= Len(c) /\ SubSeq(c, i + 1, i + Len(q)) = q

IsSubstring(q, c) == \E i \in 0..Len(c) : OccursAt(q, c, i)

FirstOccurrence(q, c) ==
    CHOOSE i \in 0..Len(c) : OccursAt(q, c, i) /\ \A j \in 0..(i - 1) : ~OccursAt(q, c, j)

IsSubsequence(q, c) ==
    \E f \in [1..Len(q) -> 1..Len(c)] :
        /\ \A k \in 1..Len(q) : c[f[k]] = q[k]
        /\ \A k, m \in 1..Len(q) : k < m => f[k] < f[m]

\* the position of c that the left-to-right greedy scan matches with q[k]
RECURSIVE GreedyPosition(_, _, _)
GreedyPosition(q, c, k) ==
    LET from == IF k = 1 THEN 0 ELSE GreedyPosition(q, c, k - 1)
    IN  CHOOSE i \in (from + 1)..Len(c) :
            c[i] = q[k] /\ \A j \in (from + 1)..(i - 1) : c[j] # q[k]

\* the score the contract gives to query q and candidate c, both prepared
ContractScore(q, c) ==
    IF q = <<>> THEN 0
    ELSE IF IsSubstring(q, c) THEN FirstOccurrence(q, c)
    ELSE IF IsSubsequence(q, c) THEN 100 + (GreedyPosition(q, c, Len(q)) - Len(q))
    ELSE null

\* C11: with q the lowercased trimmed query and c the lowercased candidate,
\* fuzzyScore is 0 for an empty q, else the first index of q in c when q is a
\* substring, else 100 + gaps when q is a subsequence, else null; it is null
\* exactly when q is not a subsequence of c.
C11_FuzzyScore ==
    fnDone =>
        LET q == Trim(ToLowerCase(fnIn.query))
            c == ToLowerCase(fnIn.value)
        IN  \A score \in {fnOut.monaco, fnOut.builder} :
                /\ score = ContractScore(q, c)
                /\ score = null <=> ~IsSubsequence(q, c)

\* a query with a capital and a trailing space that matches only as a
\* subsequence, one character skipped
C11_Witness ==
    /\ fnDone
    /\ fnIn.query = <<"C", " ">> \/ fnIn.query = <<"a", "C">>
    /\ fnOut.monaco = 101 /\ fnOut.builder = 101

-----------------------------------------------------------------------------
(* Properties of buildStepSnippet                                          *)

\* the positions of a pattern at which a placeholder starts
PlaceholderStarts(pattern) == {i \in 1..Len(pattern) : PlaceholderAt(pattern, i) # ""}

\* position i lies inside a placeholder, after its first character
InsidePlaceholder(pattern, i) ==
    \E s \in PlaceholderStarts(pattern) :
        s < i /\ i < s + Len(PlaceholderText(PlaceholderAt(pattern, s)))

\* the tab-stop the contract puts for the number-th placeholder
ContractTabStop(type, number) ==
    LET n == NumberText(number)
    IN  CASE type = "string" -> <<"\"", "$", "{">> \o n \o <<":", "v", "a", "l", "u", "e", "}", "\"">>
          [] type = "double" -> <<"$", "{">> \o n \o <<":", "0", ".", "0", "}">>
          [] type \in {"int", "long"} -> <<"$", "{">> \o n \o <<":", "0", "}">>

\* what position i of the pattern contributes to the snippet
ContractPiece(pattern, i) ==
    IF i \in PlaceholderStarts(pattern)
    THEN ContractTabStop(PlaceholderAt(pattern, i),
                         Cardinality({s \in PlaceholderStarts(pattern) : s <= i}))
    ELSE IF InsidePlaceholder(pattern, i) THEN <<>>
    ELSE <<pattern[i]>>

\* C12: buildStepSnippet(keyword, pattern) is the keyword, one space, and the
\* pattern with its i-th placeholder, counted from 1 from the left, replaced
\* by tab-stop i ("${i:value}" in quotes for {string}, ${i:0.0} for {double},
\* ${i:0} for {int} and {long}), the other text unchanged.
C12_StepSnippet ==
    fnDone =>
        fnOut = fnIn.keyword \o <<" ">>
                    \o Concat([i \in 1..Len(fnIn.pattern) |-> ContractPiece(fnIn.pattern, i)])

\* a pattern with eleven placeholders, and one with three kinds of them
C12_Witness ==
    /\ fnDone
    /\ \/ fnIn.pattern = ManyPlaceholders
       \/ fnIn.pattern = PlaceholderText("string") \o PlaceholderText("double") \o PlaceholderText("long")
    /\ Len(fnOut) > Len(fnIn.keyword) + 1 + Len(fnIn.pattern)

-----------------------------------------------------------------------------
(* Properties of stringifyTree                                             *)

\* the lines of a text: a newline ends a line, so a text that ends with a
\* newline has no line after it
LinesOfContent(content) ==
    LET pieces == SplitLines(content)
    IN  IF content = <<>> THEN <<>>
        ELSE IF pieces[Len(pieces)] = <<>> THEN SubSeq(pieces, 1, Len(pieces) - 1)
        ELSE pieces

Spaces(n) == [k \in 1..n |-> " "]

\* the output lines the serialization format gives to `nodes` at depth d
RECURSIVE FormatLines(_, _)
FormatLines(nodes, d) ==
    LET node == Head(nodes)
        own == IF node.type = "folder"
               THEN <<Spaces(2 * d) \o S_FolderTag \o node.name>>
                        \o FormatLines(node.children, d + 1)
               ELSE <<Spaces(2 * d) \o S_FileTag \o node.name>>
                        \o [k \in 1..Len(LinesOfContent(node.content)) |->
                                Spaces(2 * (d + 1)) \o LinesOfContent(node.content)[k]]
    IN  IF nodes = <<>> THEN <<>> ELSE own \o FormatLines(Tail(nodes), d)

Terminated(lines) == Concat([k \in 1..Len(lines) |-> lines[k] \o S_Newline])

\* C13: stringifyTree emits for a folder at depth d the line of 2d spaces and
\* '[Folder] name' followed by its children at depth d + 1, for a file the
\* line of 2d spaces and '[File] name' followed by exactly one line per line
\* of its content, each behind 2(d + 1) spaces, and no other line.
C13_TreeSerialization ==
    fnDone =>
        /\ fnOut.builder = Terminated(FormatLines(fnIn, 0))
        /\ fnOut.editor = Terminated(FormatLines(fnIn, 0))

-----------------------------------------------------------------------------
(* Properties of normalizeFolderPath                                       *)

\* p has no empty segment, no slash at either end, and no segment that
\* starts or ends with whitespace
CleanPath(p) ==
    /\ p # <<>> => p[1] # "/" /\ p[Len(p)] # "/"
    /\ p # <<>> => ~IsSpace(p[1]) /\ ~IsSpace(p[Len(p)])
    /\ \A i \in 1..(Len(p) - 1) :
        /\ ~(p[i] = "/" /\ p[i + 1] = "/")
        /\ ~(p[i] = "/" /\ IsSpace(p[i + 1]))
        /\ ~(IsSpace(p[i]) /\ p[i + 1] = "/")

\* C14: normalizeFolderPath(normalizeFolderPath(p)) = normalizeFolderPath(p)
\* for every path p, and the result has no empty segment, no leading or
\* trailing slash and no segment with whitespace at its ends.
C14_NormalizeIdempotent ==
    fnDone => fnOut.twice = fnOut.once /\ CleanPath(fnOut.once)

\* a path with a leading slash, a repeated slash and a padded segment
C14_Witness ==
    /\ fnDone
    /\ fnIn = <<"/", " ", "a", "/", "/">>
    /\ fnOut.once = <<"a">>

-----------------------------------------------------------------------------
(* Properties of flattenSteps on malformed responses                       *)

\* C16: for every response value, also one without data or data.steps, with
\* a bucket value that is no sequence or a bucket item that is no string,
\* flattenSteps returns a list and raises no exception.
C16_FlattenTotal ==
    fnDone => ~fnOut.monaco.threw /\ ~fnOut.builder.threw

-----------------------------------------------------------------------------
(* Properties of the catalog load                                          *)

\* the empty list and the normalized list of every body that normalizes
WholeCatalogs ==
    {<<>>} \cup {flattenSteps(body).value :
                    body \in {b \in BodiesOf(S_AppA) \cup BodiesOf(S_AppB) : ~flattenSteps(b).threw}}

\* what a handled request leaves in the catalog
LoadOutcome(request) ==
    IF request.status = "rejected" \/ flattenSteps(request.body).threw THEN <<>>
    ELSE flattenSteps(request.body).value

\* C15: a fetch for the current app that fails, by a network error or by an
\* exception while normalizing, leaves the empty catalog, one that succeeds
\* replaces the catalog by the whole normalized list; and the catalog the
\* completion provider reads is always empty or the whole list of one load.
C15_CatalogLoad ==
    /\ [](kStepsRef \in WholeCatalogs /\ kSteps \in WholeCatalogs)
    /\ [][\A i \in 1..Len(kRequests) :
            (kRequests[i].app = kAppId /\ kRequests[i].status # "pending"
                /\ kRequests' = WithoutRequest(kRequests, i))
            => kSteps' = LoadOutcome(kRequests[i])]_vars

\* app B is current, its fetch has failed and emptied the catalog that the
\* provider still reads whole from the load of app A
C15_Witness ==
    /\ kAppId = S_AppB /\ kRequests = <<>>
    /\ kSteps = <<>>
    /\ kStepsRef = flattenSteps(BodyA).value

\* the catalogs a fetch for `app` can leave
CatalogsOf(app) ==
    {<<>>} \cup {flattenSteps(body).value :
                    body \in {b \in BodiesOf(app) : ~flattenSteps(b).threw}}

\* C28: once every fetch has settled and its callback has run, the catalog is
\* one that a fetch for the current app leaves: the response for an earlier
\* app has not replaced it.
C28_CatalogOfCurrentApp ==
    (kRequests = <<>> /\ kAppId # <<>>) => kSteps \in CatalogsOf(kAppId)

-----------------------------------------------------------------------------
(* Properties of validateModel under a change of letter case               *)

\* the step keyword that equals `written` when letter case is ignored
CanonicalKeyword(written) ==
    StepKeywords[CHOOSE k \in 1..Len(StepKeywords) :
                    ToLowerCase(StepKeywords[k]) = ToLowerCase(written)]

\* the line with its step keyword, if it starts with one, in canonical case
CanonicalLine(raw) ==
    LET lead == Len(raw) - Len(TrimStart(raw))
        line == Trim(raw)
        written == IF IsFeatureLine(line) \/ IsScenarioLine(line) THEN <<>> ELSE StepMatch(line)
    IN  IF written = <<>> THEN raw
        ELSE SubSeq(raw, 1, lead) \o CanonicalKeyword(written)
                \o SubSeq(raw, lead + Len(written) + 1, Len(raw))

CanonicalCase(lines) == [i \in 1..Len(lines) |-> CanonicalLine(lines[i])]

\* the lines and messages of a list of markers
Diagnostics(markers) ==
    [k \in 1..Len(markers) |-> <<markers[k].startLineNumber, markers[k].message>>]

\* C17: changing only the letter case of the step keywords of a document
\* never changes the diagnostics (lines and messages) of validateModel: the
\* document and its copy with canonical keywords get the same list.
C17_KeywordCase ==
    vDone => Diagnostics(vMarkers) = Diagnostics(ValidateModel(CanonicalCase(vLines)))

-----------------------------------------------------------------------------
(* Properties of the suggestion list                                       *)

\* the query of the line, as provideCompletionItems reads it
LineQuery == KeywordMatch(TrimStart(fnIn.linePrefix))

LineScore(candidate) == fuzzyScore(LineQuery.query, candidate)

PreparedQuery == Trim(ToLowerCase(LineQuery.query))

SubstringMatch(candidate) == IsSubstring(PreparedQuery, ToLowerCase(candidate))

SubsequenceOnly(candidate) ==
    /\ ~IsSubstring(PreparedQuery, ToLowerCase(candidate))
    /\ IsSubsequence(PreparedQuery, ToLowerCase(candidate))

\* C18: on a line with a step keyword and a query, a suggested step that
\* contains the query as a contiguous substring has a strictly lower score
\* than a suggested step that matches it only as a subsequence, and stands
\* before it in the list, whatever the lengths of the two steps.
C18_TierSeparation ==
    (fnDone /\ LineQuery.matched /\ PreparedQuery # <<>>) =>
        \A i, j \in 1..Len(fnOut) :
            (SubstringMatch(fnOut[i].label) /\ SubsequenceOnly(fnOut[j].label)) =>
                /\ LineScore(fnOut[i].label) < LineScore(fnOut[j].label)
                /\ i < j

\* the position of the step in the catalog
CatalogPosition(step) == CHOOSE c \in 1..Len(fnIn.steps) : fnIn.steps[c] = step

\* the catalog entries the filters before the sort keep: a score that is not
\* null, no earlier entry with the same lower-case text
Candidates ==
    {c \in 1..Len(fnIn.steps) :
        /\ LineScore(fnIn.steps[c]) # null
        /\ \A b \in 1..(c - 1) : ToLowerCase(fnIn.steps[b]) # ToLowerCase(fnIn.steps[c])}

Suggested == {CatalogPosition(fnOut[k].label) : k \in 1..Len(fnOut)}

\* C19: on a line with a step keyword and a query, the suggestions are
\* catalog entries with a score that is not null, in non-decreasing order of
\* score, entries of equal score in catalog order; there are at most 50, and
\* an entry is left out only when there are 50 and none of them has a
\* strictly higher score than it.
C19_SuggestionRanking ==
    (fnDone /\ LineQuery.matched) =>
        /\ \A k \in 1..Len(fnOut) :
            /\ fnOut[k].kind = "Snippet"
            /\ \E c \in 1..Len(fnIn.steps) : fnIn.steps[c] = fnOut[k].label
            /\ LineScore(fnOut[k].label) # null
        /\ \A i, j \in 1..Len(fnOut) :
            i < j =>
                /\ LineScore(fnOut[i].label) <= LineScore(fnOut[j].label)
                /\ LineScore(fnOut[i].label) = LineScore(fnOut[j].label)
                    => CatalogPosition(fnOut[i].label) < CatalogPosition(fnOut[j].label)
        /\ Len(fnOut) <= 50
        /\ \A c \in Candidates \ Suggested :
            /\ Len(fnOut) = 50
            /\ \A k \in 1..Len(fnOut) : LineScore(fnOut[k].label) <= LineScore(fnIn.steps[c])

\* a catalog of more than 50 matching entries: the list is full, entries of
\* equal score are in it, the order is not the catalog's, and a matching
\* entry is left out
C19_Witness ==
    /\ fnDone /\ LineQuery.matched
    /\ Len(fnOut) = 50
    /\ Candidates \ Suggested # {}
    /\ \E i \in 1..49 : LineScore(fnOut[i].label) = LineScore(fnOut[i + 1].label)
    /\ \E i, j \in 1..50 :
        i < j /\ CatalogPosition(fnOut[j].label) < CatalogPosition(fnOut[i].label)

-----------------------------------------------------------------------------
(* Properties of sortTreeItems                                             *)

IsPermutation(out, in) ==
    /\ Len(out) = Len(in)
    /\ \E f \in [1..Len(in) -> 1..Len(in)] :
        /\ \A i, j \in 1..Len(in) : i # j => f[i] # f[j]
        /\ \A i \in 1..Len(in) : out[i] = in[f[i]]

\* x may stand before y
InOrder(x, y) ==
    \/ getItemDepth(x.path) < getItemDepth(y.path)
    \/ /\ getItemDepth(x.path) = getItemDepth(y.path)
       /\ x.type = "folder" /\ y.type = "file"
    \/ /\ getItemDepth(x.path) = getItemDepth(y.path)
       /\ x.type = y.type
       /\ localeCompare(x.path, y.path) < 0

\* C20: for items with pairwise distinct paths sortTreeItems returns a
\* permutation of its input in which an item that stands before another is
\* less deep, or as deep and a folder before a file, or as deep and of the
\* same type with a path that orders before the other's; sorting the result
\* again returns it unchanged.
C20_SortTreeItems ==
    fnDone =>
        /\ IsPermutation(fnOut.once, fnIn)
        /\ \A i, j \in 1..Len(fnOut.once) : i < j => InOrder(fnOut.once[i], fnOut.once[j])
        /\ fnOut.twice = fnOut.once

-----------------------------------------------------------------------------
(* Properties of the language service                                      *)

\* C23: the language, its tokenizer and its theme are registered at most
\* once; once registered there is exactly one completion provider, before
\* that none, and a step that registers a provider leaves no other provider
\* registered.
C23_Registration ==
    /\ [](/\ registrations <= 1
          /\ Cardinality(providers) = (IF languageRegistered THEN 1 ELSE 0)
          /\ providers \subseteq {completionProviderDisposable})
    /\ [][providers' # providers => providers' = {completionProviderDisposable'}]_vars

\* the page was mounted again after a provider was registered, and its
\* editor has registered the next provider
C23_Witness ==
    /\ page = 1 /\ editor >= 2 /\ initializedRef
    /\ completionProviderDisposable >= 2
    /\ registrations = 1

-----------------------------------------------------------------------------
(* Properties of the AuthProvider                                          *)

\* the interceptor is handling a 401: its refresh is in flight, or the logout
\* it awaits after a failed refresh
InterceptorBusy ==
    \/ \E k \in 1..Len(refreshes) : refreshes[k].origin = "interceptor"
    \/ \E k \in 1..Len(logouts) : logouts[k].origin = "interceptor"

\* a request whose 401 started a refresh has the only refresh in flight
OneRefreshPer401 ==
    \A i \in 1..MaxCalls : calls[i].state = "refreshing" => Len(refreshes) = 1

\* once the interceptor has finished with a refresh the queue is empty, no
\* request is left waiting in it, and the flag is false
QueueDrained ==
    ~InterceptorBusy =>
        /\ queue = <<>>
        /\ ~isRefreshing
        /\ \A i \in 1..MaxCalls : calls[i].state # "queued"

\* C25: a 401 that arrives while a refresh is in flight is queued and starts
\* no second refresh; once the interceptor has finished with a refresh the
\* queue is empty, no request is left waiting in it and the refreshing flag
\* is false; and no request is sent again more than once.
C25_RefreshQueue ==
    /\ \A i \in 1..MaxCalls : calls[i].replays <= 1
    /\ OneRefreshPer401
    /\ QueueDrained

\* the parts of C25 the interceptor keeps: no request is sent again more than
\* once, a queued request is in the queue exactly once, and the flag is true
\* exactly while the interceptor handles a 401
QueueKept ==
    /\ \A i \in 1..MaxCalls :
            /\ calls[i].replays <= 1
            /\ calls[i].state = "queued" => Cardinality({k \in 1..Len(queue) : queue[k] = i}) = 1
    /\ isRefreshing <=> InterceptorBusy

\* C26: at most one request to /auth/refresh is in flight at any time.
C26_SingleFlight == Len(refreshes) <= 1

\* the interceptor alone never has two refreshes in flight
InterceptorSingleFlight ==
    Cardinality({k \in 1..Len(refreshes) : refreshes[k].origin = "interceptor"}) <= 1

\* C27: once logout() has completed, and until login() is called again, the
\* tokens in memory and in localStorage are null, no refresh timer is pending
\* and isAuthenticated is false.
C27_LogoutFinal ==
    loggedOut =>
        /\ accessToken = 0 /\ refreshRef = 0
        /\ inMem = NoTokens /\ stored = NoTokens
        /\ ~timer

\* logout() leaves that state when it completes
LogoutClears ==
    [][\A k \in 1..Len(logouts) :
            logouts' = WithoutAt(logouts, k) =>
                /\ accessToken' = 0 /\ refreshRef' = 0
                /\ inMem' = NoTokens /\ stored' = NoTokens
                /\ ~timer']_vars

=============================================================================
